---- MODULE Spec2Model ----
(***************************************************************************)
(* A model of music-turtles: the exact-rational musical time arithmetic    *)
(* (backend/src/time.rs), the composer and the parallel rewriting engine   *)
(* (backend/src/cfg/mod.rs, backend/src/composition.rs) and the real-time  *)
(* scheduler (src/scheduler.rs).                                           *)
(*                                                                         *)
(* Representation.  A Beat (num::rational::Ratio<u32>, always reduced) is  *)
(* a pair <<numer, denom>>.  A MusicTime(measure, beat) is a record        *)
(* [measure, beat].  A TimeSignature(beats per measure, beat unit) is a    *)
(* pair.  Seconds are kept as exact rationals at 60 bpm, where one second  *)
(* is one beat.                                                            *)
(***************************************************************************)
EXTENDS Integers, Sequences, FiniteSets, TLC

VARIABLES
    t_sig, t_a, t_b, t_ratio, t_op, t_outcome, t_res,
    sched, elapsed, npolls, selected, batch, seen, history,
    c_input, c_start, c_called, c_result,
    r_grammar, r_input, r_random, r_runs, r_out,
    s_checks, s_input, s_scanner, s_result, s_text, s_again,
    k_pc, k_current, k_end, k_end_non_looped, k_looping, k_sounds, k_i,
    now, p_pc, p_wake, chan, sent, c_player, c_pc, c_wake, c_hand, played, c_end,
    x_fn, x_args, x_ret

timeVars    == <<t_sig, t_a, t_b, t_ratio, t_op, t_outcome, t_res>>
schedVars   == <<sched, elapsed, npolls, selected, batch, seen, history>>
composeVars == <<c_input, c_start, c_called, c_result>>
rewriteVars == <<r_grammar, r_input, r_random, r_runs, r_out>>
scanVars    == <<s_checks, s_input, s_scanner, s_result, s_text, s_again>>
stepVars    == <<k_pc, k_current, k_end, k_end_non_looped, k_looping, k_sounds, k_i>>
pipeVars    == <<now, p_pc, p_wake, chan, sent, c_player, c_pc, c_wake, c_hand, played, c_end>>
pureVars    == <<x_fn, x_args, x_ret>>
vars        == <<timeVars, schedVars, composeVars, rewriteVars, scanVars, stepVars, pipeVars, pureVars>>

(***************************************************************************)
(* Bounds of the model.                                                    *)
(***************************************************************************)
MaxMeasure  == 2   \* measures of the MusicTime operands drawn by InitTime
MaxBeatNum  == 6   \* numerators of the beats drawn by InitTime
MaxBeatDen  == 2   \* denominators of the beats drawn by InitTime

(***************************************************************************)
(* Exact rationals: num::rational::Ratio<u32> as used by Beat.             *)
(***************************************************************************)
RECURSIVE gcd(_, _)
gcd(a, b) == IF b = 0 THEN a ELSE gcd(b, a % b)

\* Beat::new: Ratio::new reduces the fraction.
Beat_new(num, denom) ==
    LET g == gcd(num, denom) IN <<num \div g, denom \div g>>

Beat_whole(num) == Beat_new(num, 1)

Beat_zero == <<0, 1>>

\* Add<Beat> for Beat
Beat_add(a, b) == Beat_new(a[1] * b[2] + b[1] * a[2], a[2] * b[2])

\* Sub<Beat> for Beat; the caller guarantees a >= b (u32 numerators).
Beat_sub(a, b) == Beat_new(a[1] * b[2] - b[1] * a[2], a[2] * b[2])

\* The derived Ord of Beat compares the rational values.
Beat_lt(a, b) == a[1] * b[2] < b[1] * a[2]
Beat_le(a, b) == a[1] * b[2] <= b[1] * a[2]

MusicTime(measure, beat) == [measure |-> measure, beat |-> beat]

MusicTime_zero == MusicTime(0, Beat_zero)

MusicTime_beats(beats) == MusicTime(0, Beat_whole(beats))

\* The derived Ord of MusicTime: the measure first, then the beat.
MT_lt(a, b) ==
    \/ a.measure < b.measure
    \/ a.measure = b.measure /\ Beat_lt(a.beat, b.beat)
MT_le(a, b) == a = b \/ MT_lt(a, b)

\* Beat::as_music_time keeping the beat as it is.
as_music_time_no_rem(beat, time_signature) ==
    MusicTime(beat[1] \div (beat[2] * time_signature[1]), beat)

\* Beat::as_music_time: floor of beat / beatsPerMeasure, and beat % beatsPerMeasure
\* (Ratio % integer is numer % (denom * k) over denom).
as_music_time(beat, time_signature) ==
    LET measures == beat[1] \div (beat[2] * time_signature[1])
        leftover == Beat_new(beat[1] % (beat[2] * time_signature[1]), beat[2])
    IN  MusicTime(measures, leftover)

\* MusicTimeWithSignature::total_beats
total_beats(time, time_signature) ==
    Beat_add(Beat_new(time.measure * time_signature[1], 1), time.beat)

\* Add<MusicTime> for MusicTimeWithSignature
MT_add(self, rhs, time_signature) ==
    LET new_measure == self.measure + rhs.measure
        carried     == as_music_time(Beat_add(self.beat, rhs.beat), time_signature)
    IN  MusicTime(new_measure + carried.measure, carried.beat)

\* Sub<MusicTime> for MusicTimeWithSignature: the u32 subtractions that go below
\* zero (a panic with overflow checks, a value modulo 2^32 without them).
sub_overflows(self, rhs, time_signature) ==
    LET borrow   == Beat_lt(self.beat, rhs.beat)
        new_beat == IF borrow
                    THEN Beat_add(self.beat, Beat_whole(time_signature[1]))
                    ELSE self.beat
    IN  \/ self.measure < rhs.measure
        \/ borrow /\ self.measure - rhs.measure = 0
        \/ Beat_lt(new_beat, rhs.beat)

\* Sub<MusicTime> that adds the beats of a measure without taking the measure.
MT_sub_no_borrow(self, rhs, time_signature) ==
    LET borrow   == Beat_lt(self.beat, rhs.beat)
        new_beat == IF borrow
                    THEN Beat_add(self.beat, Beat_whole(time_signature[1]))
                    ELSE self.beat
        rest     == as_music_time(Beat_sub(new_beat, rhs.beat), time_signature)
    IN  MusicTime(rest.measure + self.measure - rhs.measure, rest.beat)

\* Sub<MusicTime> for MusicTimeWithSignature, where no subtraction overflows.
MT_sub(self, rhs, time_signature) ==
    LET borrow      == Beat_lt(self.beat, rhs.beat)
        new_measure == IF borrow
                       THEN self.measure - rhs.measure - 1
                       ELSE self.measure - rhs.measure
        new_beat    == IF borrow
                       THEN Beat_add(self.beat, Beat_whole(time_signature[1]))
                       ELSE self.beat
        rest        == as_music_time(Beat_sub(new_beat, rhs.beat), time_signature)
    IN  MusicTime(rest.measure + new_measure, rest.beat)

\* The u32 quotient and remainder by m of a wrapped value.  A u32 of 2^31 or more
\* is written v - 2^32, the same 32 bits read as a signed number; 2^32 is
\* (65536 div m * m + 65536 mod m) squared.
u32_div(n, m) ==
    IF n >= 0 THEN n \div m
    ELSE LET qa == 65536 \div m
             p  == 65536 % m
         IN  qa * qa * m + 2 * qa * p + ((p * p) \div m) + ((((p * p) % m) + n) \div m)

u32_rem(n, m) ==
    IF n >= 0 THEN n % m ELSE ((((65536 % m) * (65536 % m)) % m) + n) % m

\* Sub<MusicTime> for MusicTimeWithSignature built without overflow checks: each
\* u32 subtraction and addition is taken modulo 2^32.  The Ratio subtraction works
\* over the least common denominator, or over the product of the denominators in
\* older releases of num-rational (over_lcm = FALSE).
MT_sub_wrapping(self, rhs, time_signature, over_lcm) ==
    LET borrow      == Beat_lt(self.beat, rhs.beat)
        new_measure == IF borrow
                       THEN self.measure - rhs.measure - 1
                       ELSE self.measure - rhs.measure
        new_beat    == IF borrow
                       THEN Beat_add(self.beat, Beat_whole(time_signature[1]))
                       ELSE self.beat
        denom       == IF over_lcm
                       THEN (new_beat[2] * rhs.beat[2]) \div gcd(new_beat[2], rhs.beat[2])
                       ELSE new_beat[2] * rhs.beat[2]
        numer       == new_beat[1] * (denom \div new_beat[2])
                         - rhs.beat[1] * (denom \div rhs.beat[2])
        measures    == u32_div(numer, denom * time_signature[1])
        leftover    == Beat_new(u32_rem(numer, denom * time_signature[1]), denom)
    IN  MusicTime(measures + new_measure, leftover)

\* What a subtraction can give: its value, or where a u32 subtraction goes below
\* zero a panic (overflow checks on) or the wrapped value (overflow checks off).
sub_outcomes(self, rhs, time_signature) ==
    IF sub_overflows(self, rhs, time_signature)
    THEN {[outcome |-> "panic", res |-> MusicTime_zero]}
           \cup {[outcome |-> "wrapped",
                  res |-> MT_sub_wrapping(self, rhs, time_signature, over_lcm)] :
                    over_lcm \in BOOLEAN}
    ELSE {[outcome |-> "value", res |-> MT_sub(self, rhs, time_signature)]}

\* Mul<Ratio<BeatUnit>> for MusicTimeWithSignature
MT_mul(self, rhs, time_signature) ==
    LET total == total_beats(self, time_signature)
    IN  as_music_time(Beat_new(total[1] * rhs[1], total[2] * rhs[2]), time_signature)

\* MusicTime::from_seconds at 60 bpm for an elapsed time of `halves` half seconds:
\* the beat count is floor(beats * 10^6) / 10^6.
from_seconds(time_signature, halves) ==
    as_music_time(Beat_new(halves * 500000, 1000000), time_signature)

\* MusicTime::to_seconds at 60 bpm, as an exact rational.
to_seconds(time, time_signature) == total_beats(time, time_signature)

(***************************************************************************)
(* Events, tracks and the scheduler.                                       *)
(***************************************************************************)
Event(start, duration, volume, pitch) ==
    [start |-> start, duration |-> duration, volume |-> volume, pitch |-> pitch]

\* Pitch(octave, note) is a pair; its derived Ord is lexicographic.
Pitch_lt(p, q) == p[1] < q[1] \/ (p[1] = q[1] /\ p[2] < q[2])

\* The derived Ord of Event: start, duration, volume, pitch.
Event_lt(a, b) ==
    \/ MT_lt(a.start, b.start)
    \/ /\ a.start = b.start
       /\ \/ Beat_lt(a.duration, b.duration)
          \/ /\ a.duration = b.duration
             /\ \/ a.volume < b.volume
                \/ a.volume = b.volume /\ Pitch_lt(a.pitch, b.pitch)

\* The declaration order of the Instrument enum, which its derived PartialOrd uses.
Instruments == <<"SineWave", "Piano", "Bass">>
Instrument_rank(i) == CHOOSE k \in 1..Len(Instruments) : Instruments[k] = i

\* Pitch::to_frequency is strictly increasing in 12 * octave + note; the model
\* keeps that semitone number in place of the float.
to_frequency(pitch) == 12 * pitch[1] + pitch[2]

\* The derived PartialOrd of ScheduledSound: time, duration, volume, instrument, pitch.
Sound_lt(a, b) ==
    \/ Beat_lt(a.time, b.time)
    \/ /\ a.time = b.time
       /\ \/ Beat_lt(a.duration, b.duration)
          \/ /\ a.duration = b.duration
             /\ \/ a.volume < b.volume
                \/ /\ a.volume = b.volume
                   /\ \/ Instrument_rank(a.instrument) < Instrument_rank(b.instrument)
                      \/ /\ a.instrument = b.instrument
                         /\ a.pitch < b.pitch

Less(kind, a, b) == IF kind = "event" THEN Event_lt(a, b) ELSE Sound_lt(a, b)

\* Vec::sort / sort_by: a stable sort.
RECURSIVE InsertSorted(_, _, _)
InsertSorted(kind, s, x) ==
    IF s = <<>> THEN <<x>>
    ELSE IF Less(kind, x, Head(s)) THEN <<x>> \o s
         ELSE <<Head(s)>> \o InsertSorted(kind, Tail(s), x)

\* A batch left in the order of the tracks.
sort_vec_unsorted(kind, s) == s

RECURSIVE sort_vec(_, _)
sort_vec(kind, s) ==
    IF s = <<>> THEN <<>>
    ELSE CHOOSE out \in {InsertSorted(kind, front, s[Len(s)]) :
                            front \in {sort_vec(kind, SubSeq(s, 1, Len(s) - 1))}} : TRUE

RECURSIVE FlattenSeq(_)
FlattenSeq(ss) == IF ss = <<>> THEN <<>> ELSE Head(ss) \o FlattenSeq(Tail(ss))

Track(identifier, instrument, events, rests) ==
    [identifier |-> identifier, instrument |-> instrument,
     events |-> events, rests |-> rests]

\* Track::get_events_starting_between (the end is always inclusive; no rests)
get_events_starting_between(track, start, end, start_exclusive) ==
    IF (start_exclusive /\ MT_le(end, start)) \/ MT_lt(end, start)
    THEN <<>>
    ELSE sort_vec("event",
             SelectSeq(track.events,
                 LAMBDA e : /\ IF start_exclusive THEN MT_lt(start, e.start)
                                                  ELSE MT_le(start, e.start)
                            /\ MT_le(e.start, end)))

\* The two `while t > loop_end { t = t - loop_end }` loops of the poll.
RECURSIVE subtract_loops(_, _, _)
subtract_loops(t, loop_end, time_signature) ==
    IF MT_lt(loop_end, t)
    THEN subtract_loops(MT_sub(t, loop_end, time_signature), loop_end, time_signature)
    ELSE t

\* The loop duration added once to a time in the past.
push_after_once(time, current_track_pos, loop_time_s) ==
    IF Beat_lt(time, current_track_pos) THEN Beat_add(time, loop_time_s) ELSE time

\* `while se.time < current_track_pos { se.time += loop_time_s }`
RECURSIVE push_after(_, _, _)
push_after(time, current_track_pos, loop_time_s) ==
    IF Beat_lt(time, current_track_pos)
    THEN push_after(Beat_add(time, loop_time_s), current_track_pos, loop_time_s)
    ELSE time

\* The position of the poll, wrapped into the loop (scheduler.rs lines 59-63).
current_music_time(s, halves) ==
    subtract_loops(from_seconds(s.time_signature, halves), s.loop_time, s.time_signature)

\* end_non_looped: the window end before wrapping.
end_non_looped(s, halves) ==
    MT_add(current_music_time(s, halves), s.lookahead, s.time_signature)

\* looping: the window crosses the loop end of a looped scheduler.
looping(s, halves) == s.looped /\ MT_lt(s.loop_time, end_non_looped(s, halves))

\* end_music_time: the window end, wrapped when looping.
end_music_time(s, halves) ==
    IF looping(s, halves)
    THEN subtract_loops(end_non_looped(s, halves), s.loop_time, s.time_signature)
    ELSE end_non_looped(s, halves)

\* The events selected for one (track, cursor) pair (scheduler.rs lines 77-92).
select_events(s, halves, track, cursor) ==
    LET wend == end_music_time(s, halves) IN
    IF looping(s, halves)
    THEN IF MT_lt(end_non_looped(s, halves), cursor)
         THEN <<>>
         ELSE IF MT_le(cursor, wend)
              THEN get_events_starting_between(track, cursor, wend, TRUE)
              ELSE get_events_starting_between(track, cursor, s.loop_time, TRUE)
                   \o get_events_starting_between(track, MusicTime_zero, wend, FALSE)
    ELSE get_events_starting_between(track, cursor, wend, TRUE)

\* The ScheduledSound of one selected event (scheduler.rs lines 95-114).
scheduled_sound(s, halves, track, e) ==
    [time       |-> push_after(to_seconds(e.start, s.time_signature),
                               Beat_new(halves, 2),
                               to_seconds(s.loop_time, s.time_signature)),
     duration   |-> to_seconds(as_music_time(e.duration, s.time_signature), s.time_signature),
     volume     |-> e.volume,
     instrument |-> track.instrument,
     pitch      |-> to_frequency(e.pitch)]

\* The batch get_next_events_and_update returns at elapsed time halves / 2 s.
next_events(s, halves) ==
    sort_vec("sound",
        FlattenSeq([i \in 1..Len(s.tracks) |->
            LET tr  == s.tracks[i].track
                evs == select_events(s, halves, tr, s.tracks[i].cursor)
            IN  [k \in 1..Len(evs) |-> scheduled_sound(s, halves, tr, evs[k])]]))

\* A poll that takes the events it selects out of the tracks.
get_next_events_and_update_draining(halves) ==
    /\ sched' = [sched EXCEPT !.tracks =
                    [i \in 1..Len(sched.tracks) |->
                        [track  |-> [sched.tracks[i].track EXCEPT !.events =
                                        SelectSeq(@, LAMBDA e :
                                            \A k \in DOMAIN select_events(sched, halves,
                                                    sched.tracks[i].track, sched.tracks[i].cursor) :
                                                select_events(sched, halves, sched.tracks[i].track,
                                                    sched.tracks[i].cursor)[k] # e)],
                         cursor |-> end_music_time(sched, halves)]]]
    /\ selected' = [i \in 1..Len(sched.tracks) |->
                      select_events(sched, halves, sched.tracks[i].track,
                                    sched.tracks[i].cursor)]
    /\ batch' = next_events(sched, halves)
    /\ elapsed' = halves
    /\ npolls' = npolls + 1
    /\ seen' = seen \cup UNION {{<<i, selected[i][k]>> : k \in DOMAIN selected[i]} :
                                    i \in DOMAIN selected}
    /\ history' = Append(history, batch')

\* A plausible slip: the cursor left at the window end before wrapping.
get_next_events_and_update_unwrapped_cursor(halves) ==
    /\ sched' = [sched EXCEPT !.tracks =
                    [i \in 1..Len(sched.tracks) |->
                        [track  |-> sched.tracks[i].track,
                         cursor |-> end_non_looped(sched, halves)]]]
    /\ selected' = [i \in 1..Len(sched.tracks) |->
                      select_events(sched, halves, sched.tracks[i].track,
                                    sched.tracks[i].cursor)]
    /\ batch' = next_events(sched, halves)
    /\ elapsed' = halves
    /\ npolls' = npolls + 1
    /\ seen' = seen \cup UNION {{<<i, selected[i][k]>> : k \in DOMAIN selected[i]} :
                                    i \in DOMAIN selected}
    /\ history' = Append(history, batch')

\* Scheduler::get_next_events_and_update: one poll at elapsed time halves / 2 s.
get_next_events_and_update(halves) ==
    /\ sched' = [sched EXCEPT !.tracks =
                    [i \in 1..Len(sched.tracks) |->
                        [track  |-> sched.tracks[i].track,
                         cursor |-> end_music_time(sched, halves)]]]
    /\ selected' = [i \in 1..Len(sched.tracks) |->
                      select_events(sched, halves, sched.tracks[i].track,
                                    sched.tracks[i].cursor)]
    /\ batch' = next_events(sched, halves)
    /\ elapsed' = halves
    /\ npolls' = npolls + 1
    /\ seen' = seen \cup UNION {{<<i, selected[i][k]>> : k \in DOMAIN selected[i]} :
                                    i \in DOMAIN selected}
    /\ history' = Append(history, batch')

(***************************************************************************)
(* The scheduler as a state machine.  sched is the Scheduler; elapsed is   *)
(* the elapsed time of the last poll in half seconds; selected holds, per  *)
(* track, the events the last poll selected; batch is what it returned;    *)
(* seen holds the <<track, event>> pairs of the polls before the last one; *)
(* history is the sequence of all batches.                                 *)
(***************************************************************************)
MaxPolls         == 5    \* polls of a run of SpecSched
MaxScenarioPolls == 10   \* polls of the scenario: elapsed 0.0, 0.5, ..., 4.5

Common == <<4, 4>>   \* TimeSignature::common()

HalfBeat(k) == as_music_time(Beat_new(k, 2), Common)

\* An event of the model: one beat long, volume 20, told apart by its pitch.
NoteAt(k, note) == Event(HalfBeat(k), Beat_whole(1), 20, <<4, note>>)

\* A track with one event at each of the given half-beat positions (ascending).
TrackAt(positions, instrument) ==
    LET n == Cardinality(positions)
        pos[i \in 1..n] ==
            CHOOSE p \in positions : Cardinality({q \in positions : q < p}) = i - 1
    IN  Track(<<"Custom", 0>>, instrument, [i \in 1..n |-> NoteAt(pos[i], i)], <<>>)

Scheduler(tracks, lookahead, looped, loop_time) ==
    [bpm |-> 60, time_signature |-> Common,
     tracks |-> [i \in 1..Len(tracks) |-> [track |-> tracks[i], cursor |-> MusicTime_zero]],
     lookahead |-> lookahead, looped |-> looped, loop_time |-> loop_time]

IdleTime ==
    /\ t_sig = Common /\ t_a = MusicTime_zero /\ t_b = MusicTime_zero
    /\ t_ratio = <<1, 1>> /\ t_op = "idle" /\ t_outcome = "idle" /\ t_res = MusicTime_zero

IdleSched ==
    /\ sched = Scheduler(<<>>, MusicTime_zero, FALSE, MusicTime_zero)
    /\ elapsed = 0 /\ npolls = 0 /\ selected = <<>> /\ batch = <<>>
    /\ seen = {} /\ history = <<>>

IdleCompose ==
    /\ c_input = <<>> /\ c_start = "SineWave" /\ c_called = FALSE /\ c_result = <<>>

IdleRewrite ==
    /\ r_grammar = <<>> /\ r_input = <<>> /\ r_random = FALSE /\ r_runs = 0 /\ r_out = <<>>

IdleScan ==
    /\ s_checks = TRUE /\ s_input = <<>> /\ s_scanner = "none"
    /\ s_result = [kind |-> "none"] /\ s_text = <<>> /\ s_again = [kind |-> "none"]

IdlePure ==
    /\ x_fn = "idle" /\ x_args = <<>> /\ x_ret = <<>>

IdleStep ==
    /\ k_pc = "idle" /\ k_current = MusicTime_zero /\ k_end = MusicTime_zero
    /\ k_end_non_looped = MusicTime_zero /\ k_looping = FALSE
    /\ k_sounds = <<>> /\ k_i = 0

IdlePipe ==
    /\ now = 0 /\ p_pc = "idle" /\ p_wake = 0 /\ chan = <<>> /\ sent = <<>>
    /\ c_player = "none" /\ c_pc = "idle" /\ c_wake = Beat_zero /\ c_hand = <<>>
    /\ played = <<>> /\ c_end = Beat_zero

\* The scenario: looped, 4/4, loop_time of 4 beats, lookahead of 1 beat, one track
\* whose events start on half beats in [0, 4 beats), every cursor at zero.
ScenarioPositions == 0..7

InitScenario ==
    /\ \E positions \in SUBSET ScenarioPositions :
          sched = Scheduler(<<TrackAt(positions, "SineWave")>>,
                            MusicTime_beats(1), TRUE, MusicTime(1, Beat_zero))
    /\ elapsed = 0 /\ npolls = 0 /\ selected = <<<<>>>> /\ batch = <<>>
    /\ seen = {} /\ history = <<>>
    /\ IdleTime /\ IdleCompose /\ IdleRewrite /\ IdleScan /\ IdlePure /\ IdleStep /\ IdlePipe

\* The k-th poll of the scenario is at elapsed time k / 2 seconds.
ScenarioPoll ==
    /\ npolls < MaxScenarioPolls
    /\ get_next_events_and_update(npolls)
    /\ UNCHANGED <<timeVars, composeVars, rewriteVars, scanVars, pureVars, stepVars, pipeVars>>

SpecScenario == InitScenario /\ [][ScenarioPoll]_vars

\* Schedulers of SpecSched: looped or not, three lookaheads, two loop times, one or
\* two tracks with events inside and beyond the first measure.
SchedTracks ==
    { <<TrackAt({0, 2, 4, 6}, "SineWave")>>,
      <<TrackAt({0, 1, 7}, "SineWave")>>,
      <<TrackAt({3, 8, 10}, "Piano")>>,
      <<TrackAt({0, 2, 4, 6}, "SineWave"), TrackAt({1, 4, 9}, "Piano")>> }

SchedLookaheads == {MusicTime_beats(1), HalfBeat(1), MusicTime(1, Beat_zero)}
SchedLoopTimes  == {MusicTime(1, Beat_zero), MusicTime_beats(2)}
PollSteps       == {0, 1, 3}   \* half seconds between two polls

InitSched ==
    /\ \E tracks \in SchedTracks, lookahead \in SchedLookaheads,
          looped \in BOOLEAN, loop_time \in SchedLoopTimes :
          /\ sched = Scheduler(tracks, lookahead, looped, loop_time)
          /\ selected = [i \in 1..Len(tracks) |-> <<>>]
    /\ elapsed = 0 /\ npolls = 0 /\ batch = <<>>
    /\ seen = {} /\ history = <<>>
    /\ IdleTime /\ IdleCompose /\ IdleRewrite /\ IdleScan /\ IdlePure /\ IdleStep /\ IdlePipe

\* A poll at an elapsed time that is not before the previous poll's.
Poll ==
    /\ npolls < MaxPolls
    /\ \E step \in PollSteps : get_next_events_and_update(elapsed + step)
    /\ UNCHANGED <<timeVars, composeVars, rewriteVars, scanVars, pureVars, stepVars, pipeVars>>

SpecSched == InitSched /\ [][Poll]_vars

(***************************************************************************)
(* Music strings and the composer (backend/src/cfg/mod.rs).  A symbol is a *)
(* record tagged by type: "NT", "Note", "Rest", "ChangeInstrument" or      *)
(* "ChangeVolume"; a primitive is tagged by kind: "Simple", "Split" or     *)
(* "Repeat"; a MusicString is a sequence of primitives.  The HashMap of    *)
(* tracks by instrument is a function from instrument names to tracks.     *)
(***************************************************************************)
NT(name)              == [type |-> "NT", name |-> name]
Note(pitch, duration) == [type |-> "Note", pitch |-> pitch, duration |-> duration]
Rest(duration)        == [type |-> "Rest", duration |-> duration]
ChangeInstrument(i)   == [type |-> "ChangeInstrument", instrument |-> i]
ChangeVolume(v)       == [type |-> "ChangeVolume", volume |-> v]

Simple(sym)           == [kind |-> "Simple", sym |-> sym]
Split(branches)       == [kind |-> "Split", branches |-> branches]
Repeat(num, content)  == [kind |-> "Repeat", num |-> num, content |-> content]

\* The least and the greatest of a non-empty set of MusicTimes (Iterator::min, max).
MT_min(S) == CHOOSE x \in S : \A y \in S : MT_le(x, y)
MT_max(S) == CHOOSE x \in S : \A y \in S : MT_le(y, x)

SeqRange(s) == {s[i] : i \in DOMAIN s}

\* Event::get_end
Event_get_end(e, time_signature) ==
    MT_add(e.start, as_music_time(e.duration, time_signature), time_signature)

\* Track::get_start and Track::get_end, as sets: empty for None.
Track_starts(track) ==
    {e.start : e \in SeqRange(track.events) \cup SeqRange(track.rests)}
Track_ends(track, time_signature) ==
    {Event_get_end(e, time_signature) :
        e \in SeqRange(track.events) \cup SeqRange(track.rests)}

\* Track::shift_by
Track_shift_by(track, offset, time_signature) ==
    LET shift(e) == [e EXCEPT !.start = MT_add(e.start, offset, time_signature)]
    IN  [track EXCEPT !.events = [i \in DOMAIN track.events |-> shift(track.events[i])],
                      !.rests  = [i \in DOMAIN track.rests |-> shift(track.rests[i])]]

\* A plausible slip: the lists concatenated and left as they are.
Track_add_unsorted(self, rhs) ==
    Track(self.identifier, self.instrument,
          self.events \o rhs.events, self.rests \o rhs.rests)

\* Add<Self> for Track: both lists are concatenated and sorted.
Track_add(self, rhs) ==
    Track(self.identifier, self.instrument,
          sort_vec("event", self.events \o rhs.events),
          sort_vec("event", self.rests \o rhs.rests))

Composition(tracks, time_signature) ==
    [tracks |-> tracks, time_signature |-> time_signature]

\* Composition::get_duration: the latest end minus the earliest start, or zero.
get_duration(c) ==
    LET starts == UNION {Track_starts(c.tracks[i]) : i \in DOMAIN c.tracks}
        ends   == UNION {Track_ends(c.tracks[i], c.time_signature) : i \in DOMAIN c.tracks}
    IN  IF starts = {} \/ ends = {} THEN MusicTime_zero
        ELSE MT_sub(MT_max(ends), MT_min(starts), c.time_signature)

\* Composition::shift_by
shift_by(c, offset) ==
    [c EXCEPT !.tracks =
        [i \in DOMAIN c.tracks |-> Track_shift_by(c.tracks[i], offset, c.time_signature)]]

\* add_event of compose
add_event(tracks, e, instrument) ==
    IF instrument \in DOMAIN tracks
    THEN [tracks EXCEPT ![instrument].events = Append(@, e)]
    ELSE tracks @@ (instrument :> Track(<<"Instrument", instrument>>, instrument, <<e>>, <<>>))

\* add_rest_event of compose
add_rest_event(tracks, e, instrument) ==
    IF instrument \in DOMAIN tracks
    THEN [tracks EXCEPT ![instrument].rests = Append(@, e)]
    ELSE tracks @@ (instrument :> Track(<<"Instrument", instrument>>, instrument, <<>>, <<e>>))

\* add_track of compose
add_track(tracks, track) ==
    IF track.instrument \in DOMAIN tracks
    THEN [tracks EXCEPT ![track.instrument] = Track_add(@, track)]
    ELSE tracks @@ (track.instrument :> track)

\* add_composition of compose: the tracks of a composition have distinct
\* instruments, so the order in which they are added does not matter.
RECURSIVE add_tracks(_, _, _)
add_tracks(tracks, ctracks, todo) ==
    IF todo = {} THEN tracks
    ELSE LET i == CHOOSE i \in todo : TRUE
         IN  add_tracks(add_track(tracks, ctracks[i]), ctracks, todo \ {i})

add_composition(tracks, composition) ==
    add_tracks(tracks, composition.tracks, DOMAIN composition.tracks)

Ok(c)        == [ok |-> TRUE, comp |-> c]
Err(lengths) == [ok |-> FALSE, err |-> "MismatchedLengths", lengths |-> lengths]

\* ReduceResultIter::err_first: the first Err of a sequence of results, if any.
err_first(results) ==
    IF \E i \in DOMAIN results : ~results[i].ok
    THEN results[CHOOSE i \in DOMAIN results :
                    ~results[i].ok /\ \A j \in 1..(i - 1) : results[j].ok]
    ELSE [ok |-> TRUE, items |-> [i \in DOMAIN results |-> results[i].comp]]

\* The interpreter state of compose: tracks, cursor, instrument, volume, and the
\* error that ended it, if any.
ComposeState(tracks, mt, instrument, volume) ==
    [tracks |-> tracks, current_mt |-> mt, current_instrument |-> instrument,
     current_volume |-> volume, failed |-> FALSE, error |-> <<>>]

\* A plausible slip: every copy shifted by the same offset.
RECURSIVE repeat_copies_same_offset(_, _, _, _, _)
repeat_copies_same_offset(tracks, composed, offset, duration, left) ==
    IF left = 0 THEN tracks
    ELSE repeat_copies_same_offset(add_composition(tracks, shift_by(composed, offset)),
                                   composed, offset, duration, left - 1)

\* The copies of a Repeat: `for _i in 0..num` shifting by an offset that grows by
\* the duration of the content.
RECURSIVE repeat_copies(_, _, _, _, _)
repeat_copies(tracks, composed, offset, duration, left) ==
    IF left = 0 THEN tracks
    ELSE repeat_copies(add_composition(tracks, shift_by(composed, offset)), composed,
                       MT_add(offset, duration, composed.time_signature), duration, left - 1)

\* total_duration of a Repeat: duration added num times to zero.
RECURSIVE repeat_duration(_, _, _)
repeat_duration(duration, time_signature, left) ==
    IF left = 0 THEN MusicTime_zero
    ELSE MT_add(repeat_duration(duration, time_signature, left - 1), duration, time_signature)

RECURSIVE compose(_, _, _)
RECURSIVE compose_from(_, _, _)

\* A plausible slip: a rest that takes no time.
simple_duration_rest_zero(sym) ==
    IF sym.type = "Note" THEN sym.duration ELSE MusicTime_zero

\* The value of the Simple arm's match: the time the symbol takes.
simple_duration(sym) ==
    IF sym.type \in {"Note", "Rest"} THEN sym.duration ELSE MusicTime_zero

\* The Simple arm of compose (mod.rs lines 168-209), with the cursor advance of
\* line 263.
compose_simple(sym, st, time_signature) ==
    LET advance(s) ==
            [s EXCEPT !.current_mt = MT_add(@, simple_duration(sym), time_signature)]
    IN
    IF sym.type = "Note"
    THEN advance([st EXCEPT !.tracks =
                    add_event(@, Event(st.current_mt,
                                       total_beats(sym.duration, time_signature),
                                       st.current_volume, sym.pitch),
                              st.current_instrument)])
    ELSE IF sym.type = "Rest"
    THEN advance([st EXCEPT !.tracks =
                    add_rest_event(@, Event(st.current_mt,
                                            total_beats(sym.duration, time_signature),
                                            0, <<0, 0>>),
                                   st.current_instrument)])
    ELSE IF sym.type = "ChangeInstrument"
    THEN advance([st EXCEPT !.current_instrument = sym.instrument])
    ELSE IF sym.type = "ChangeVolume"
    THEN advance([st EXCEPT !.current_volume = sym.volume])
    ELSE advance(st)

\* A plausible slip: the first branch's duration taken without comparing the others.
uniform_duration_unchecked(durs) ==
    IF durs = <<>> THEN [some |-> TRUE, value |-> MusicTime_zero]
    ELSE [some |-> TRUE, value |-> durs[1]]

\* uniform_duration of the Split arm (mod.rs lines 221-231): Some(d) when every
\* branch lasts d (zero when there is no branch), else None.
uniform_duration(durs) ==
    IF durs = <<>> THEN [some |-> TRUE, value |-> MusicTime_zero]
    ELSE IF \A i \in DOMAIN durs : durs[i] = durs[1]
         THEN [some |-> TRUE, value |-> durs[1]]
         ELSE [some |-> FALSE, value |-> MusicTime_zero]

\* A plausible slip: the instrument and volume a branch ends with kept by the
\* outer composer.
compose_split_leaking(branches, st, time_signature) ==
    LET results == err_first([i \in DOMAIN branches |->
                       compose(branches[i], time_signature, st.current_instrument)])
        RECURSIVE leaked(_, _)
        leaked(s, i) ==
            IF i > Len(branches) THEN s
            ELSE LET inner == compose_from(branches[i],
                                  ComposeState(<<>>, MusicTime_zero, s.current_instrument,
                                               s.current_volume),
                                  time_signature)
                 IN  leaked([s EXCEPT !.current_instrument = inner.current_instrument,
                                      !.current_volume = inner.current_volume], i + 1)
    IN  IF ~results.ok
        THEN [st EXCEPT !.failed = TRUE, !.error = results]
        ELSE LET comps == [i \in DOMAIN branches |->
                               shift_by(results.items[i], st.current_mt)]
                 durs  == [i \in DOMAIN branches |-> get_duration(comps[i])]
                 uniform == uniform_duration(durs)
                 RECURSIVE merged(_, _)
                 merged(tracks, i) ==
                     IF i > Len(comps) THEN tracks
                     ELSE merged(add_composition(tracks, comps[i]), i + 1)
             IN  IF uniform.some
                 THEN [leaked(st, 1) EXCEPT
                          !.tracks = merged(@, 1),
                          !.current_mt = MT_add(@, uniform.value, time_signature)]
                 ELSE [st EXCEPT !.failed = TRUE, !.error = Err(durs)]

\* The Split arm of compose (mod.rs lines 210-243).
compose_split(branches, st, time_signature) ==
    LET results == err_first([i \in DOMAIN branches |->
                       compose(branches[i], time_signature, st.current_instrument)])
    IN  IF ~results.ok
        THEN [st EXCEPT !.failed = TRUE, !.error = results]
        ELSE LET comps == [i \in DOMAIN branches |->
                               shift_by(results.items[i], st.current_mt)]
                 durs  == [i \in DOMAIN branches |-> get_duration(comps[i])]
                 uniform == uniform_duration(durs)
                 RECURSIVE merged(_, _)
                 merged(tracks, i) ==
                     IF i > Len(comps) THEN tracks
                     ELSE merged(add_composition(tracks, comps[i]), i + 1)
             IN  IF uniform.some
                 THEN [st EXCEPT !.tracks = merged(@, 1),
                                 !.current_mt = MT_add(@, uniform.value, time_signature)]
                 ELSE [st EXCEPT !.failed = TRUE, !.error = Err(durs)]

\* The Repeat arm of compose (mod.rs lines 244-261).
compose_repeat(num, content, st, time_signature) ==
    LET result == compose(content, time_signature, st.current_instrument) IN
    IF ~result.ok
    THEN [st EXCEPT !.failed = TRUE, !.error = result]
    ELSE LET duration == get_duration(result.comp)
         IN  [st EXCEPT !.tracks = repeat_copies(@, result.comp, st.current_mt, duration, num),
                        !.current_mt = MT_add(@, repeat_duration(duration, time_signature, num),
                                              time_signature)]

\* The loop of compose over the primitives of the string.
compose_from(ms, st, time_signature) ==
    IF ms = <<>> \/ st.failed THEN st
    ELSE LET mp == Head(ms)
             next == IF mp.kind = "Simple" THEN compose_simple(mp.sym, st, time_signature)
                     ELSE IF mp.kind = "Split" THEN compose_split(mp.branches, st, time_signature)
                     ELSE compose_repeat(mp.num, mp.content, st, time_signature)
         IN  compose_from(Tail(ms), next, time_signature)

\* MusicString::compose; starting_instrument is "None" or an instrument.
compose(ms, time_signature, starting_instrument) ==
    LET st0 == ComposeState(<<>>, MusicTime_zero,
                            IF starting_instrument = "None" THEN "SineWave"
                            ELSE starting_instrument,
                            50)
        st  == compose_from(ms, st0, time_signature)
    IN  IF st.failed THEN st.error ELSE Ok(Composition(st.tracks, time_signature))

(***************************************************************************)
(* compose as a state machine: a music string and a starting instrument    *)
(* are drawn from bounded sets, and one call stores its result.            *)
(***************************************************************************)
MaxSimpleLen == 3   \* length of the strings of Simple terminals
MaxRepeat    == 2   \* num of the Repeat primitives

NoteC1 == Simple(Note(<<4, 3>>, MusicTime_beats(1)))
NoteG2 == Simple(Note(<<4, 10>>, MusicTime_beats(2)))
NoteDh == Simple(Note(<<4, 5>>, MusicTime(0, Beat_new(1, 2))))
NoteE5 == Simple(Note(<<5, 7>>, MusicTime_beats(5)))
Rest1  == Simple(Rest(MusicTime_beats(1)))
ToPiano == Simple(ChangeInstrument("Piano"))
ToVol80 == Simple(ChangeVolume(80))
SymA   == Simple(NT("A"))
SymB   == Simple(NT("B"))

SimpleTerminals == {NoteC1, NoteG2, NoteDh, NoteE5, Rest1, ToPiano, ToVol80}

\* All sequences over S of length at most n.
RECURSIVE SeqsUpTo(_, _)
SeqsUpTo(S, n) ==
    IF n = 0 THEN {<<>>}
    ELSE LET shorter == SeqsUpTo(S, n - 1)
         IN  shorter \cup {Append(q, x) : q \in shorter, x \in S}

SimpleStrings == SeqsUpTo(SimpleTerminals, MaxSimpleLen)

\* Strings without nesting, of 0, 1, 2, 2, 1, 2 and 0 beats.
Leaves ==
    { <<>>, <<NoteC1>>, <<NoteC1, NoteC1>>, <<NoteG2>>, <<ToPiano, NoteDh, NoteDh>>,
      <<Rest1, ToVol80, NoteC1>>, <<SymA>> }

Nest1 ==
    {Split(<<a, b>>) : a \in Leaves, b \in Leaves}
    \cup {Split(<<>>), Split(<<<<NoteC1>>, <<Rest1>>, <<NoteDh, NoteDh>>>>)}
    \cup {Split(<<a>>) : a \in Leaves}
    \cup {Repeat(n, a) : n \in 0..MaxRepeat, a \in Leaves}

Nest2 ==
    {Repeat(n, <<p>>) : n \in 0..MaxRepeat, p \in Nest1}
    \cup {Split(<<<<p>>, a>>) : p \in Nest1, a \in Leaves}

Nest3 ==
    {Split(<<<<Repeat(2, <<p>>)>>, <<NoteG2, Repeat(1, <<p>>)>>>>) : p \in Nest1}

NestedStrings ==
    {pre \o <<p>> \o suf :
        pre \in {<<>>, <<NoteC1>>, <<ToPiano, ToVol80, NoteG2>>},
        p \in Nest1 \cup Nest2 \cup Nest3,
        suf \in {<<>>, <<NoteC1>>}}

\* "{[2][:c] | [2][:g]}": a Split of two branches, each a Repeat of one 1-beat note.
NoteG1 == Simple(Note(<<4, 10>>, MusicTime_beats(1)))
TwoVoices ==
    <<Split(<<<<Repeat(2, <<NoteC1>>)>>, <<Repeat(2, <<NoteG1>>)>>>>)>>

InitCompose ==
    /\ c_input \in SimpleStrings \cup NestedStrings \cup {TwoVoices}
    /\ c_start \in {"None", "Bass"}
    /\ c_called = FALSE /\ c_result = <<>>
    /\ IdleTime /\ IdleSched /\ IdleRewrite /\ IdleScan /\ IdlePure /\ IdleStep /\ IdlePipe

\* One call of compose under 4/4.
Compose ==
    /\ ~c_called
    /\ c_called' = TRUE
    /\ c_result' = compose(c_input, Common, c_start)
    /\ UNCHANGED <<c_input, c_start, timeVars, schedVars, rewriteVars, scanVars, pureVars, stepVars, pipeVars>>

SpecCompose == InitCompose /\ [][Compose]_vars

(***************************************************************************)
(* The rewriting engine.  A Grammar is [start, productions], a Production  *)
(* is [lhs, rhs].  The random choice of get_production_random makes one    *)
(* call of parallel_rewrite have several possible results; the operators   *)
(* below yield the set of them.                                            *)
(***************************************************************************)
Production(lhs, rhs) == [lhs |-> lhs, rhs |-> rhs]
Grammar(start, productions) == [start |-> start, productions |-> productions]

\* A plausible slip: the last matching production instead of the first.
get_production_last(grammar, nt) ==
    LET matching == {i \in DOMAIN grammar.productions : grammar.productions[i].lhs = nt}
    IN  IF matching = {} THEN {}
        ELSE {grammar.productions[CHOOSE i \in matching : \A j \in matching : j <= i]}

\* Grammar::get_production: the first production whose left-hand side is nt; the
\* empty set stands for None.
get_production(grammar, nt) ==
    LET matching == {i \in DOMAIN grammar.productions : grammar.productions[i].lhs = nt}
    IN  IF matching = {} THEN {}
        ELSE {grammar.productions[CHOOSE i \in matching : \A j \in matching : i <= j]}

\* Grammar::get_production_random: any production whose left-hand side is nt.
get_production_random(grammar, nt) ==
    {grammar.productions[i] : i \in {j \in DOMAIN grammar.productions :
                                        grammar.productions[j].lhs = nt}}

\* A plausible slip: a NonTerminal without production copied to the output.
rewrite_nt_keep_unmatched(nt, grammar, random) ==
    LET chosen == IF random THEN get_production_random(grammar, nt)
                  ELSE get_production(grammar, nt)
    IN  IF chosen = {} THEN {<<Simple(NT(nt))>>} ELSE {pr.rhs : pr \in chosen}

\* The NT arm of parallel_rewrite (mod.rs lines 276-282): what the output is
\* extended with; nothing when there is no production.
rewrite_nt(nt, grammar, random) ==
    LET chosen == IF random THEN get_production_random(grammar, nt)
                  ELSE get_production(grammar, nt)
    IN  IF chosen = {} THEN {<<>>} ELSE {pr.rhs : pr \in chosen}

RECURSIVE parallel_rewrite(_, _, _)

\* The possible rewritings of a list of branches, branch by branch.
RECURSIVE rewrite_each(_, _, _)
rewrite_each(branches, grammar, random) ==
    IF branches = <<>> THEN {<<>>}
    ELSE {<<b>> \o rest : b \in parallel_rewrite(Head(branches), grammar, random),
                          rest \in rewrite_each(Tail(branches), grammar, random)}

\* A plausible slip: the branches of a Split copied without being rewritten.
rewrite_split_copy(branches, grammar, random) == {<<Split(branches)>>}

\* The Split arm of parallel_rewrite (mod.rs lines 287-293).
rewrite_split(branches, grammar, random) ==
    {<<Split(bs)>> : bs \in rewrite_each(branches, grammar, random)}

\* The Repeat arm of parallel_rewrite (mod.rs lines 294-300).
rewrite_repeat(num, content, grammar, random) ==
    {<<Repeat(num, c)>> : c \in parallel_rewrite(content, grammar, random)}

\* MusicString::parallel_rewrite: the set of strings one call can return.
parallel_rewrite(ms, grammar, random) ==
    IF ms = <<>> THEN {<<>>}
    ELSE LET mp == Head(ms)
             heads == IF mp.kind = "Simple"
                      THEN IF mp.sym.type = "NT"
                           THEN rewrite_nt(mp.sym.name, grammar, random)
                           ELSE {<<mp>>}
                      ELSE IF mp.kind = "Split"
                      THEN rewrite_split(mp.branches, grammar, random)
                      ELSE rewrite_repeat(mp.num, mp.content, grammar, random)
         IN  {h \o t : h \in heads, t \in parallel_rewrite(Tail(ms), grammar, random)}

(***************************************************************************)
(* Rewriting as a state machine: a grammar, an input string and the random *)
(* flag are drawn from bounded sets; each run rewrites the same input once *)
(* and appends what it returned to r_out.                                  *)
(***************************************************************************)
MaxRuns       == 2   \* calls of parallel_rewrite on the same input
MaxRewriteLen == 2   \* length of the flat input strings

\* C has no production in any grammar.
SymC == Simple(NT("C"))

Grammars ==
    { Grammar("A", << Production("A", <<NoteC1, SymA, SymB>>),
                      Production("B", <<Split(<<<<SymA>>, <<NoteDh, SymC>>>>)>>),
                      Production("A", <<NoteG2>>),
                      Production("B", <<>>) >>),
      Grammar("B", << Production("B", <<SymA, SymA>>),
                      Production("A", <<Repeat(2, <<SymB, Rest1>>)>>),
                      Production("A", <<SymC, SymA>>) >>),
      Grammar("A", <<>>) }

RewriteSymbols == {SymA, SymB, SymC, NoteC1, ToPiano}

FlatInputs == SeqsUpTo(RewriteSymbols, MaxRewriteLen)

ShortInputs == SeqsUpTo(RewriteSymbols, 1)

NestedInputs ==
    {pre \o <<p>> \o suf :
        pre \in {<<>>, <<SymC>>},
        p \in {Split(<<a, b>>) : a \in ShortInputs, b \in ShortInputs}
              \cup {Repeat(2, a) : a \in FlatInputs}
              \cup {Split(<<<<Repeat(1, <<SymA, SymC>>)>>,
                            <<NoteC1, Split(<<<<SymB>>, <<SymC, NoteC1>>>>)>>>>)},
        suf \in {<<>>, <<SymA>>}}

InitRewrite ==
    /\ r_grammar \in Grammars
    /\ r_input \in FlatInputs \cup NestedInputs
    /\ r_random \in BOOLEAN
    /\ r_runs = 0 /\ r_out = <<>>
    /\ IdleTime /\ IdleSched /\ IdleCompose /\ IdleScan /\ IdlePure /\ IdleStep /\ IdlePipe

\* One call of parallel_rewrite(r_input, r_grammar, r_random).
Rewrite ==
    /\ r_runs < MaxRuns
    /\ \E out \in parallel_rewrite(r_input, r_grammar, r_random) :
          r_out' = Append(r_out, out)
    /\ r_runs' = r_runs + 1
    /\ UNCHANGED <<r_grammar, r_input, r_random, timeVars, schedVars, composeVars, scanVars, pureVars, stepVars, pipeVars>>

SpecRewrite == InitRewrite /\ [][Rewrite]_vars

(***************************************************************************)
(* The time arithmetic as a state machine: operands are drawn, one         *)
(* operation is applied, and a sum can have its second operand subtracted  *)
(* again.                                                                  *)
(***************************************************************************)
TimeSignatures == {<<3, 4>>, <<4, 4>>}

\* Beats as Beat::new builds them, whole measures and more included.
OperandBeats == {Beat_new(n, d) : n \in 0..MaxBeatNum, d \in 1..MaxBeatDen}

Operands == {MusicTime(m, b) : m \in 0..MaxMeasure, b \in OperandBeats}

Ratios == {<<0, 1>>, <<1, 2>>, <<2, 1>>, <<3, 2>>}

InitTime ==
    /\ t_sig \in TimeSignatures
    /\ t_a \in Operands /\ t_b \in Operands
    /\ t_ratio \in Ratios
    /\ t_op = "idle" /\ t_outcome = "idle" /\ t_res = MusicTime_zero
    /\ IdleSched /\ IdleCompose /\ IdleRewrite /\ IdleScan /\ IdlePure /\ IdleStep /\ IdlePipe

OpAsMusicTime ==
    /\ t_op = "idle"
    /\ t_op' = "as_music_time" /\ t_outcome' = "value"
    /\ t_res' = as_music_time(t_a.beat, t_sig)
    /\ UNCHANGED <<t_sig, t_a, t_b, t_ratio, schedVars, composeVars, rewriteVars, scanVars, pureVars, stepVars, pipeVars>>

OpAdd ==
    /\ t_op = "idle"
    /\ t_op' = "add" /\ t_outcome' = "value"
    /\ t_res' = MT_add(t_a, t_b, t_sig)
    /\ UNCHANGED <<t_sig, t_a, t_b, t_ratio, schedVars, composeVars, rewriteVars, scanVars, pureVars, stepVars, pipeVars>>

OpSub ==
    /\ t_op = "idle"
    /\ t_op' = "sub"
    /\ \E o \in sub_outcomes(t_a, t_b, t_sig) : t_outcome' = o.outcome /\ t_res' = o.res
    /\ UNCHANGED <<t_sig, t_a, t_b, t_ratio, schedVars, composeVars, rewriteVars, scanVars, pureVars, stepVars, pipeVars>>

OpMul ==
    /\ t_op = "idle"
    /\ t_op' = "mul" /\ t_outcome' = "value"
    /\ t_res' = MT_mul(t_a, t_ratio, t_sig)
    /\ UNCHANGED <<t_sig, t_a, t_b, t_ratio, schedVars, composeVars, rewriteVars, scanVars, pureVars, stepVars, pipeVars>>

\* (a + b) - b: the sum of OpAdd has b subtracted again.
OpSubBack ==
    /\ t_op = "add"
    /\ t_op' = "add_sub"
    /\ \E o \in sub_outcomes(t_res, t_b, t_sig) : t_outcome' = o.outcome /\ t_res' = o.res
    /\ UNCHANGED <<t_sig, t_a, t_b, t_ratio, schedVars, composeVars, rewriteVars, scanVars, pureVars, stepVars, pipeVars>>

NextTime == OpAsMusicTime \/ OpAdd \/ OpSub \/ OpMul \/ OpSubBack

SpecTime == InitTime /\ [][NextTime]_vars

(***************************************************************************)
(* The scanners (backend/src/cfg/scan.rs).  A &str is a sequence of one-   *)
(* character strings (ASCII, so byte and char offsets agree).  A scan      *)
(* gives [kind |-> "ok", value, rest], [kind |-> "err", error] or, where   *)
(* the code panics, [kind |-> "panic"].                                    *)
(***************************************************************************)
Scan_Ok(value, rest) == [kind |-> "ok", value |-> value, rest |-> rest]
Scan_Err(error)      == [kind |-> "err", error |-> error]
Scan_Panic           == [kind |-> "panic"]

LowerCase == <<"a", "b", "c", "d", "e", "f", "g", "h", "i", "j", "k", "l", "m",
               "n", "o", "p", "q", "r", "s", "t", "u", "v", "w", "x", "y", "z">>
UpperCase == <<"A", "B", "C", "D", "E", "F", "G", "H", "I", "J", "K", "L", "M",
               "N", "O", "P", "Q", "R", "S", "T", "U", "V", "W", "X", "Y", "Z">>
DigitChars == <<"0", "1", "2", "3", "4", "5", "6", "7", "8", "9">>

is_alphabetic(c)   == c \in SeqRange(LowerCase) \cup SeqRange(UpperCase)
is_digit(c)        == c \in SeqRange(DigitChars)
is_alphanumeric(c) == is_alphabetic(c) \/ is_digit(c)

\* char::to_digit(10)
to_digit(c) == (CHOOSE k \in DOMAIN DigitChars : DigitChars[k] = c) - 1

to_ascii_lowercase(c) ==
    IF c \in SeqRange(UpperCase)
    THEN LowerCase[CHOOSE k \in DOMAIN UpperCase : UpperCase[k] = c]
    ELSE c

\* &s[n..]
Drop(str, n) == SubSeq(str, n + 1, Len(str))

starts_with(str, c) == str # <<>> /\ str[1] = c

\* str::trim_start and str::trim_end for the white space of the model, ' ' and '\n'.
RECURSIVE trim_start(_)
trim_start(str) ==
    IF str # <<>> /\ str[1] \in {" ", "\n"} THEN trim_start(Tail(str)) ELSE str

RECURSIVE trim_end(_)
trim_end(str) ==
    IF str # <<>> /\ str[Len(str)] \in {" ", "\n"}
    THEN trim_end(SubSeq(str, 1, Len(str) - 1)) ELSE str

\* str::split(c): the pieces between the occurrences of c, at least one piece.
RECURSIVE split(_, _)
split(str, c) ==
    IF \A i \in DOMAIN str : str[i] # c THEN <<str>>
    ELSE LET k == CHOOSE i \in DOMAIN str : str[i] = c /\ \A j \in 1..(i - 1) : str[j] # c
         IN  <<SubSeq(str, 1, k - 1)>> \o split(Drop(str, k), c)

\* str::find(c): the 0-based offset of the first c, or -1 for None.
find(str, c) ==
    IF \A i \in DOMAIN str : str[i] # c THEN -1
    ELSE (CHOOSE i \in DOMAIN str : str[i] = c /\ \A j \in 1..(i - 1) : str[j] # c) - 1

\* find_matching: one opening char has been read; the 0-based offset of the close
\* that brings the count back to zero, or -1 for None.
RECURSIVE find_matching_from(_, _, _, _, _)
find_matching_from(input, open, close, i, stack) ==
    IF i > Len(input) THEN -1
    ELSE IF input[i] = open THEN find_matching_from(input, open, close, i + 1, stack + 1)
    ELSE IF input[i] = close
         THEN IF stack - 1 = 0 THEN i - 1
              ELSE find_matching_from(input, open, close, i + 1, stack - 1)
    ELSE find_matching_from(input, open, close, i + 1, stack)

find_matching(input, open, close) == find_matching_from(input, open, close, 1, 1)

\* The number of the digit string, most significant first.
RECURSIVE digits_value(_)
digits_value(ds) ==
    IF ds = <<>> THEN 0 ELSE 10 * digits_value(SubSeq(ds, 1, Len(ds) - 1)) + to_digit(ds[Len(ds)])

RECURSIVE strip_zeros(_)
strip_zeros(ds) == IF Len(ds) > 1 /\ ds[1] = "0" THEN strip_zeros(Tail(ds)) ELSE ds

\* str::parse::<u32>() and ::<usize>(): an optional '+', then one digit or more and
\* nothing else; Err (some = FALSE) also when the number does not fit.  The model
\* keeps numbers of at most 9 significant digits; a longer one that fits in the
\* type (10 digits for u32 up to 4294967295, 20 for usize) is outside its inputs.
parse_uint(str, max_digits) ==
    LET ds  == IF starts_with(str, "+") THEN Tail(str) ELSE str
        sig == strip_zeros(ds)
    IN  IF ds = <<>> \/ \E i \in DOMAIN ds : ~is_digit(ds[i]) THEN [some |-> FALSE]
        ELSE IF Len(sig) > max_digits THEN [some |-> FALSE]
        ELSE [some |-> TRUE, value |-> digits_value(sig)]

parse_u32(str)   == parse_uint(str, 9)
parse_usize(str) == parse_uint(str, 9)

\* The length of the longest prefix of str, from position i on, made of chars of
\* the set.
RECURSIVE run_length(_, _, _)
run_length(str, i, chars) ==
    IF i <= Len(str) /\ str[i] \in chars THEN 1 + run_length(str, i + 1, chars) ELSE 0

\* The loop `while let Some(c) = chars.next()` of the NonTerminal, Instrument and
\* Volume scanners: the token is the first char and the run of chars of the set
\* after it; the char that ends the run has been taken from the iterator, so the
\* remainder starts after it.
token_and_rest(input, chars) ==
    LET k == 1 + run_length(input, 2, chars)
    IN  [token |-> SubSeq(input, 1, k), rest |-> Drop(input, k + 1)]

\* The chars a NonTerminal goes on with, and those an Instrument name goes on with.
NonTerminalChars ==
    SeqRange(LowerCase) \cup SeqRange(UpperCase) \cup SeqRange(DigitChars) \cup {"-"}
InstrumentChars ==
    SeqRange(LowerCase) \cup SeqRange(UpperCase) \cup SeqRange(DigitChars) \cup {"_"}

\* Result::map of the scanners: an Ok keeps its remainder and has its value mapped
\* (scan_map), anything else is passed on.  The mapping is named by `to`.
map_value(to, value) ==
    CASE to = "NT" -> NT(value)
      [] to = "Simple" -> Simple(value)
      [] to = "ChangeInstrument" -> ChangeInstrument(value)
      [] to = "ChangeVolume" -> ChangeVolume(value)

scan_map(r, to) ==
    IF r.kind = "ok" THEN Scan_Ok(map_value(to, r.value), r.rest) ELSE r

\* NonTerminalScanner
NonTerminalScanner(input) ==
    IF input = <<>> THEN Scan_Err("Generic")
    ELSE IF is_alphabetic(input[1]) \/ input[1] = "-"
    THEN Scan_Ok(token_and_rest(input, NonTerminalChars).token,
                 token_and_rest(input, NonTerminalChars).rest)
    ELSE Scan_Err("Generic")

\* The names FromStr for Instrument accepts, in lower case: "piano" and the Debug
\* name of each variant.
InstrumentNames ==
    {<<<<"p", "i", "a", "n", "o">>, "Piano">>,
     <<<<"s", "i", "n", "e", "w", "a", "v", "e">>, "SineWave">>,
     <<<<"b", "a", "s", "s">>, "Bass">>,
     <<<<"b", "o", "n", "g", "o", "h", "i", "g", "h">>, "BongoHigh">>,
     <<<<"b", "o", "n", "g", "o", "l", "o", "w">>, "BongoLow">>,
     <<<<"s", "h", "a", "k", "e", "r", "1">>, "Shaker1">>,
     <<<<"s", "h", "a", "k", "e", "r", "2">>, "Shaker2">>}

\* FromStr for Instrument
Instrument_from_str(str) ==
    LET lower == [i \in DOMAIN str |-> to_ascii_lowercase(str[i])]
        found == {n \in InstrumentNames : n[1] = lower}
    IN  IF found = {} THEN [some |-> FALSE]
        ELSE [some |-> TRUE, value |-> (CHOOSE n \in found : TRUE)[2]]

\* `token.parse().unwrap()` of the Instrument and Volume scanners: the parsed value
\* with the remainder, a panic where parse gave an Err.
unwrap_parsed(parsed, rest) ==
    IF parsed.some THEN Scan_Ok(parsed.value, rest) ELSE Scan_Panic

\* InstrumentScanner: `instrument.parse().unwrap()` panics on an unknown name.
InstrumentScanner(input) ==
    IF input = <<>> THEN Scan_Err("Generic")
    ELSE IF is_alphabetic(input[1])
    THEN unwrap_parsed(Instrument_from_str(token_and_rest(input, InstrumentChars).token),
                       token_and_rest(input, InstrumentChars).rest)
    ELSE Scan_Err("Generic")

\* VolumeScanner: `volume.parse().unwrap()` panics on a number that is no u32.
VolumeScanner(input) ==
    IF input = <<>> THEN Scan_Err("Generic")
    ELSE IF is_digit(input[1])
    THEN unwrap_parsed(parse_u32(token_and_rest(input, SeqRange(DigitChars)).token),
                       token_and_rest(input, SeqRange(DigitChars)).rest)
    ELSE Scan_Err("Generic")

\* MetaControlScanner
MetaControlScanner(input) ==
    IF input = <<>> THEN Scan_Err("Generic")
    ELSE IF Len(input) >= 2 /\ input[2] = "="
    THEN IF input[1] = "i"
         THEN scan_map(InstrumentScanner(Drop(input, 2)), "ChangeInstrument")
         ELSE IF input[1] = "v"
         THEN scan_map(VolumeScanner(Drop(input, 2)), "ChangeVolume")
         ELSE Scan_Err("Generic")
    ELSE Scan_Err("Generic")

\* The offset of the note letter in the octave, counted from A.
note_offset(letter) ==
    CASE letter = "a" -> 0 [] letter = "b" -> 2 [] letter = "c" -> 3 [] letter = "d" -> 5
      [] letter = "e" -> 7 [] letter = "f" -> 8 [] letter = "g" -> 10

\* NoteScanner from the note letter on, at input[consumed].  `note -= 1` on the u8 0
\* panics with overflow checks (s_checks) and gives 255 without.
note_at(input, octave, consumed) ==
    LET note  == note_offset(to_ascii_lowercase(input[consumed]))
        sharp == consumed < Len(input) /\ input[consumed + 1] = "#"
        flat  == consumed < Len(input) /\ input[consumed + 1] = "b"
    IN  IF sharp
        THEN Scan_Ok(<<"Note", <<octave, note + 1>>>>, Drop(input, consumed + 1))
        ELSE IF flat
        THEN IF note = 0
             THEN IF s_checks THEN Scan_Panic
                  ELSE Scan_Ok(<<"Note", <<octave, 255>>>>, Drop(input, consumed + 1))
             ELSE Scan_Ok(<<"Note", <<octave, note - 1>>>>, Drop(input, consumed + 1))
        ELSE Scan_Ok(<<"Note", <<octave, note>>>>, Drop(input, consumed))

\* NoteScanner.  The value is <<"Rest">> or <<"Note", Pitch>>.
NoteScanner(input) ==
    IF input = <<>> THEN Scan_Err("Generic")
    ELSE IF input[1] = "_" THEN Scan_Ok(<<"Rest">>, Tail(input))
    ELSE LET digit    == is_digit(input[1])
             octave   == IF digit THEN to_digit(input[1]) ELSE 4
             consumed == IF digit THEN 2 ELSE 1
         IN  IF consumed > Len(input) THEN Scan_Err("Generic")
             ELSE IF to_ascii_lowercase(input[consumed]) \in {"a", "b", "c", "d", "e", "f", "g"}
             THEN note_at(input, octave, consumed)
             ELSE Scan_Err("Generic")

\* The ratio arm of DurationScanner.  Beat::new(num, 0) panics in Ratio::new.
duration_ratio(num, denom, rest) ==
    IF num.some /\ denom.some
    THEN IF denom.value = 0 THEN Scan_Panic
         ELSE Scan_Ok(MusicTime(0, Beat_new(num.value, denom.value)), rest)
    ELSE Scan_Ok(MusicTime_beats(1), rest)

\* The whole-number arm of DurationScanner: parse::<u32>().unwrap_or(0).
duration_whole(n, rest) ==
    Scan_Ok(MusicTime_beats(IF n.some THEN n.value ELSE 0), rest)

\* DurationScanner with the text between '<' and '>' and what follows.
duration_of(duration, rest) ==
    IF \E i \in DOMAIN duration : duration[i] = "/"
    THEN duration_ratio(parse_u32(split(duration, "/")[1]),
                        parse_u32(split(duration, "/")[2]), rest)
    ELSE duration_whole(parse_u32(duration), rest)

\* DurationScanner with `end` of find_matching.
duration_at(input, end) ==
    IF end < 0 THEN Scan_Err("Generic")
    ELSE duration_of(SubSeq(input, 2, end + 1), Drop(input, end + 2))

\* DurationScanner
DurationScanner(input) ==
    IF starts_with(input, "<")
    THEN duration_at(input, find_matching(Tail(input), "<", ">"))
    ELSE Scan_Ok(MusicTime_beats(1), input)

\* The map of TerminalScanner: Terminal::Music of the note and the duration.
terminal_music(note, d) ==
    IF d.kind # "ok" THEN d
    ELSE Scan_Ok(IF note[1] = "Rest" THEN Rest(d.value) ELSE Note(note[2], d.value), d.rest)

\* concat(NoteScanner, DurationScanner) of TerminalScanner, with the note's result.
note_then_duration(n) ==
    IF n.kind # "ok" THEN n ELSE terminal_music(n.value, DurationScanner(n.rest))

\* TerminalScanner: "::" MetaControl, or a Note followed by a Duration.
TerminalScanner(input) ==
    IF starts_with(input, ":")
    THEN MetaControlScanner(Tail(input))
    ELSE note_then_duration(NoteScanner(input))

\* SymbolScanner: ":" Terminal, or a NonTerminal.
SymbolScanner(input) ==
    IF starts_with(input, ":")
    THEN TerminalScanner(Tail(input))
    ELSE scan_map(NonTerminalScanner(input), "NT")

\* ConsumeScanner: an Ok with input left over becomes an error.
consume(r) ==
    IF r.kind = "ok" /\ r.rest # <<>> THEN Scan_Err("Generic") ELSE r

\* MusicStringScanner returning an error where a primitive fails.
MusicStringScanner_strict(music_string, remaining_input, p) ==
    IF p.kind = "err" THEN p ELSE Scan_Panic

\* MusicStringScanner, where the primitive at the trimmed remaining input did not
\* scan: an error ends the loop and what was collected is returned with that
\* input; a panic unwinds.
MusicStringScanner_failed(music_string, remaining_input, p) ==
    IF p.kind = "err" THEN Scan_Ok(music_string, remaining_input) ELSE Scan_Panic

RECURSIVE MusicStringScanner_loop(_, _)
RECURSIVE MusicStringScanner_step(_, _, _)
RECURSIVE MusicPrimitiveScanner(_)
RECURSIVE MusicPrimitiveSplitScanner(_)
RECURSIVE MusicPrimitiveRepeatScanner(_)
RECURSIVE scan_branches(_, _)
RECURSIVE scan_branches_step(_, _, _)

\* One turn of the loop of MusicStringScanner::scan, with the result p of
\* MusicPrimitiveScanner on the trimmed remaining input.
MusicStringScanner_step(music_string, remaining_input, p) ==
    IF p.kind = "ok"
    THEN MusicStringScanner_loop(Append(music_string, p.value), p.rest)
    ELSE MusicStringScanner_failed(music_string, remaining_input, p)

\* The loop of MusicStringScanner::scan
MusicStringScanner_loop(music_string, input) ==
    IF trim_start(input) = <<>> THEN Scan_Ok(music_string, <<>>)
    ELSE MusicStringScanner_step(music_string, trim_start(input),
                                 MusicPrimitiveScanner(trim_start(input)))

MusicStringScanner(input) == MusicStringScanner_loop(<<>>, input)

\* MusicPrimitiveScanner: '{' Split, '[' Repeat, otherwise a Symbol.
MusicPrimitiveScanner(input) ==
    IF starts_with(input, "{") THEN MusicPrimitiveSplitScanner(input)
    ELSE IF starts_with(input, "[") THEN MusicPrimitiveRepeatScanner(input)
    ELSE scan_map(SymbolScanner(input), "Simple")

\* The try_fold of the Split scanner over the parts after the first: each is
\* scanned by MusicStringScanner and what it leaves unread is dropped.
scan_branches_step(vec, parts, r) ==
    IF r.kind = "ok" THEN scan_branches(Append(vec, r.value), Tail(parts)) ELSE r

scan_branches(vec, parts) ==
    IF parts = <<>> THEN Scan_Ok(vec, <<>>)
    ELSE scan_branches_step(vec, parts, MusicStringScanner(Head(parts)))

\* The end of the Split scanner: the branches and the input after the '}'.
split_done(all, rest) ==
    IF all.kind # "ok" THEN all ELSE Scan_Ok(Split(all.value), rest)

\* The Split scanner with the first part scanned by consume(MusicStringScanner).
split_rest(first, parts, rest) ==
    IF first.kind # "ok" THEN first
    ELSE split_done(scan_branches(<<first.value>>, Tail(parts)), rest)

\* The Split scanner with `end` of find_matching: the text up to the matching '}'
\* is split on every '|'.
split_at(rest, end) ==
    IF end < 0 THEN Scan_Err("Generic")
    ELSE split_rest(consume(MusicStringScanner(Head(split(SubSeq(rest, 1, end), "|")))),
                    split(SubSeq(rest, 1, end), "|"), Drop(rest, end + 1))

\* MusicPrimitiveSplitScanner
MusicPrimitiveSplitScanner(input) ==
    IF starts_with(input, "{")
    THEN split_at(Tail(input), find_matching(Tail(input), "{", "}"))
    ELSE Scan_Err("Generic")

\* The end of the Repeat scanner: `repeat_num.parse().unwrap()` panics on a count
\* that is no usize, once the content has been scanned.
repeat_done(content, num, rest) ==
    IF content.kind # "ok" THEN content
    ELSE IF ~num.some THEN Scan_Panic
    ELSE Scan_Ok(Repeat(num.value, content.value), rest)

\* The Repeat scanner with `end_bracket` of find_matching.
repeat_at(repeat_num, rest, end_bracket) ==
    IF end_bracket < 0 THEN Scan_Err("Generic")
    ELSE repeat_done(consume(MusicStringScanner(SubSeq(rest, 1, end_bracket))),
                     parse_usize(repeat_num), Drop(rest, end_bracket + 1))

\* The Repeat scanner with `repeat_num_end` of input.find(']').
repeat_from(input, repeat_num_end) ==
    IF repeat_num_end < 0 THEN Scan_Err("Generic")
    ELSE IF ~starts_with(Drop(input, repeat_num_end + 1), "[") THEN Scan_Err("Generic")
    ELSE repeat_at(SubSeq(input, 2, repeat_num_end), Drop(input, repeat_num_end + 2),
                   find_matching(Drop(input, repeat_num_end + 2), "[", "]"))

\* MusicPrimitiveRepeatScanner
MusicPrimitiveRepeatScanner(input) ==
    IF starts_with(input, "[") THEN repeat_from(input, find(input, "]"))
    ELSE Scan_Err("Generic")

\* The map of ProductionScanner.
production_done(nt, ms) ==
    IF ms.kind # "ok" THEN ms ELSE Scan_Ok(Production(nt, ms.value), ms.rest)

\* ProductionScanner after the NonTerminal: "=" once the rest is trimmed at both
\* ends, and a MusicString.
production_rest(nt, trimmed) ==
    IF ~starts_with(trimmed, "=") THEN Scan_Err("Generic")
    ELSE production_done(nt, MusicStringScanner(Tail(trimmed)))

production_from(nt) ==
    IF nt.kind # "ok" THEN nt
    ELSE production_rest(nt.value, trim_end(trim_start(nt.rest)))

\* ProductionScanner
ProductionScanner(input) == production_from(NonTerminalScanner(input))

\* FromStr for MusicString: consume(MusicStringScanner), the remainder dropped.
from_str_done(r) ==
    IF r.kind = "ok" THEN [kind |-> "ok", value |-> r.value] ELSE r

MusicString_from_str(str) == from_str_done(consume(MusicStringScanner(str)))

\* The productions of GrammarScanner: every line after the first is scanned by
\* ProductionScanner, what it leaves unread is dropped, the first error is returned.
RECURSIVE scan_productions(_, _)
RECURSIVE scan_productions_step(_, _, _)
scan_productions_step(productions, lines, r) ==
    IF r.kind = "ok" THEN scan_productions(Append(productions, r.value), Tail(lines))
    ELSE r

scan_productions(productions, lines) ==
    IF lines = <<>> THEN Scan_Ok(productions, <<>>)
    ELSE scan_productions_step(productions, lines, ProductionScanner(Head(lines)))

\* The elements of the sequence that are not empty, in order.
RECURSIVE non_empty(_)
non_empty(strs) ==
    IF strs = <<>> THEN <<>>
    ELSE (IF Head(strs) = <<>> THEN <<>> ELSE <<Head(strs)>>) \o non_empty(Tail(strs))

\* The trimmed non-empty lines of the input.
trimmed_lines(pieces) ==
    non_empty([i \in DOMAIN pieces |-> trim_end(trim_start(pieces[i]))])

\* The end of GrammarScanner.
grammar_done(start, productions) ==
    IF productions.kind # "ok" THEN productions
    ELSE Scan_Ok(Grammar(start, productions.value), <<>>)

grammar_from(start, lines) ==
    IF start.kind # "ok" THEN start
    ELSE grammar_done(start.value, scan_productions(<<>>, Tail(lines)))

\* GrammarScanner over the lines: "start " and a NonTerminal on the first, a
\* production on each of the others.
grammar_of(lines) ==
    IF lines = <<>> THEN Scan_Err("Generic")
    ELSE IF Len(lines[1]) < 6 \/ SubSeq(lines[1], 1, 6) # <<"s", "t", "a", "r", "t", " ">>
    THEN Scan_Err("Generic")
    ELSE grammar_from(NonTerminalScanner(Drop(lines[1], 6)), lines)

\* GrammarScanner
GrammarScanner(input) == grammar_of(trimmed_lines(split(input, "\n")))

\* format!("{}", n) for an unsigned number.
RECURSIVE uint_to_string(_)
uint_to_string(n) ==
    IF n < 10 THEN <<DigitChars[n + 1]>>
    ELSE uint_to_string(n \div 10) \o <<DigitChars[(n % 10) + 1]>>

\* Pitch::letter_name: the name without the octave; a note number above 11 panics
\* (the model gives the empty name and to_string_panics tells).
letter_name(pitch) ==
    CASE pitch[2] = 0 -> <<"A">>       [] pitch[2] = 1 -> <<"B", "b">>
      [] pitch[2] = 2 -> <<"B">>       [] pitch[2] = 3 -> <<"C">>
      [] pitch[2] = 4 -> <<"C", "#">>  [] pitch[2] = 5 -> <<"D">>
      [] pitch[2] = 6 -> <<"E", "b">>  [] pitch[2] = 7 -> <<"E">>
      [] pitch[2] = 8 -> <<"F">>       [] pitch[2] = 9 -> <<"F", "#">>
      [] pitch[2] = 10 -> <<"G">>      [] pitch[2] = 11 -> <<"A", "b">>
      [] OTHER -> <<>>

\* ToString for MusicTime
MusicTime_to_string(time) ==
    LET beat_str == IF time.beat = Beat_zero THEN <<"0">>
                    ELSE IF time.beat[2] = 1 THEN uint_to_string(time.beat[1])
                    ELSE uint_to_string(time.beat[1]) \o <<"/">> \o uint_to_string(time.beat[2])
    IN  IF time.measure = 0 THEN beat_str
        ELSE uint_to_string(time.measure) \o <<"m", "+">> \o beat_str

\* format!("{:?}", instrument): the name of the variant.
Instrument_debug(i) ==
    CASE i = "Piano" -> <<"P", "i", "a", "n", "o">>
      [] i = "SineWave" -> <<"S", "i", "n", "e", "W", "a", "v", "e">>
      [] i = "Bass" -> <<"B", "a", "s", "s">>
      [] i = "BongoHigh" -> <<"B", "o", "n", "g", "o", "H", "i", "g", "h">>
      [] i = "BongoLow" -> <<"B", "o", "n", "g", "o", "L", "o", "w">>
      [] i = "Shaker1" -> <<"S", "h", "a", "k", "e", "r", "1">>
      [] i = "Shaker2" -> <<"S", "h", "a", "k", "e", "r", "2">>

\* ToString for Symbol, NonTerminal, Terminal and MetaControl.  The derived Debug of
\* the tuple struct Volume prints "Volume(80)".
Symbol_to_string(sym) ==
    CASE sym.type = "NT" -> sym.name
      [] sym.type = "Note" ->
            <<":">> \o letter_name(sym.pitch) \o <<"<">>
                \o MusicTime_to_string(sym.duration) \o <<">">>
      [] sym.type = "Rest" ->
            <<":", "_", "<">> \o MusicTime_to_string(sym.duration) \o <<">">>
      [] sym.type = "ChangeInstrument" ->
            <<":", ":", "i", "=">> \o Instrument_debug(sym.instrument)
      [] sym.type = "ChangeVolume" ->
            <<":", ":", "v", "=", "V", "o", "l", "u", "m", "e", "(">>
                \o uint_to_string(sym.volume) \o <<")">>

RECURSIVE MusicString_to_string(_)
RECURSIVE join_branches(_)

\* The reduce of the Split arm: the branches joined by " | ", "" for no branch.
join_branches(branches) ==
    IF branches = <<>> THEN <<>>
    ELSE IF Len(branches) = 1 THEN MusicString_to_string(branches[1])
    ELSE join_branches(SubSeq(branches, 1, Len(branches) - 1))
            \o <<" ", "|", " ">> \o MusicString_to_string(branches[Len(branches)])

\* ToString for MusicString: every primitive is followed by a space.
MusicString_to_string(ms) ==
    IF ms = <<>> THEN <<>>
    ELSE LET mp == Head(ms)
             h  == IF mp.kind = "Simple" THEN Symbol_to_string(mp.sym)
                   ELSE IF mp.kind = "Split"
                   THEN <<"{">> \o join_branches(mp.branches) \o <<"}">>
                   ELSE <<"[">> \o uint_to_string(mp.num) \o <<"]", "[">>
                            \o MusicString_to_string(mp.content) \o <<"]">>
         IN  h \o <<" ">> \o MusicString_to_string(Tail(ms))

\* Some note of the string has a number letter_name panics on.
RECURSIVE to_string_panics(_)
to_string_panics(ms) ==
    \E k \in DOMAIN ms :
        \/ ms[k].kind = "Simple" /\ ms[k].sym.type = "Note" /\ ms[k].sym.pitch[2] > 11
        \/ ms[k].kind = "Split" /\ \E i \in DOMAIN ms[k].branches : to_string_panics(ms[k].branches[i])
        \/ ms[k].kind = "Repeat" /\ to_string_panics(ms[k].content)

(***************************************************************************)
(* The scanners as a state machine: a text and the build (with or without  *)
(* overflow checks) are drawn; one scanner is applied to the text, or the  *)
(* text is parsed by FromStr for MusicString, and a parsed MusicString can *)
(* be serialized and parsed again.                                         *)
(***************************************************************************)
MaxTextLen == 4   \* length of the texts drawn over ScanAlphabet

ScanAlphabet == {"{", "|", "}", ":", "a", " "}

\* A repeat count that is no number: [x][a]
TextRepeatCount ==
    <<"[", "x", "]", "[", "a", "]">>
\* An instrument FromStr does not know: ::i=tuba
TextUnknownInstrument ==
    <<":", ":", "i", "=", "t", "u", "b", "a">>
\* A volume that is no u32: ::v=99999999999
TextLongVolume ==
    <<":", ":", "v", "=", "9", "9", "9", "9", "9", "9", "9", "9", "9", "9",
      "9">>
\* A duration with the denominator zero: :c<1/0>
TextZeroDenominator ==
    <<":", "c", "<", "1", "/", "0", ">">>
\* A flat on the note of offset 0: :ab
TextFlatA ==
    <<":", "a", "b">>
\* A Split whose second branch is a Split: {a | {b | c}}
TextSplitInSplit ==
    <<"{", "a", " ", "|", " ", "{", "b", " ", "|", " ", "c", "}", "}">>
\* A Split whose first branch is a Split: {{a | b} | c}
TextSplitInSplitFirst ==
    <<"{", "{", "a", " ", "|", " ", "b", "}", " ", "|", " ", "c", "}">>
\* A Repeat around a Split and a Repeat: [2][{a | b} [3][:c]]
TextNestedNoBar ==
    <<"[", "2", "]", "[", "{", "a", " ", "|", " ", "b", "}", " ", "[", "3",
      "]", "[", ":", "c", "]", "]">>
\* A Split of two Repeats: {[2][:c] | [2][:g]}
TextTwoRepeats ==
    <<"{", "[", "2", "]", "[", ":", "c", "]", " ", "|", " ", "[", "2", "]",
      "[", ":", "g", "]", "}">>
\* A note with an octave: :2c
TextOctave ==
    <<":", "2", "c">>
\* A volume meta-control: ::v=80
TextVolume ==
    <<":", ":", "v", "=", "8", "0">>
\* The note of number 11: :g#
TextSharpG ==
    <<":", "g", "#">>
\* Notes, a rest, an instrument change and a NonTerminal: :c :e<2> :_<1/2> ::i=piano A
TextPlain ==
    <<":", "c", " ", ":", "e", "<", "2", ">", " ", ":", "_", "<", "1", "/",
      "2", ">", " ", ":", ":", "i", "=", "p", "i", "a", "n", "o", " ", "A">>
\* A primitive that does not scan between two that do: a :x b
TextBadPrimitive ==
    <<"a", " ", ":", "x", " ", "b">>
\* A production: S = a :c
TextProduction ==
    <<"S", " ", "=", " ", "a", " ", ":", "c">>
\* A grammar: start S\nS = [2][:c A]\nA = :g
TextGrammar ==
    <<"s", "t", "a", "r", "t", " ", "S", "\n", "S", " ", "=", " ", "[", "2",
      "]", "[", ":", "c", " ", "A", "]", "\n", "A", " ", "=", " ", ":",
      "g">>

ScanTexts ==
    {TextRepeatCount, TextUnknownInstrument, TextLongVolume,
     TextZeroDenominator, TextFlatA, TextSplitInSplit,
     TextSplitInSplitFirst, TextNestedNoBar, TextTwoRepeats, TextOctave,
     TextVolume, TextSharpG, TextPlain, TextBadPrimitive, TextProduction,
     TextGrammar}

ScanInputs == SeqsUpTo(ScanAlphabet, MaxTextLen) \cup ScanTexts

ScannerNames ==
    {"Grammar", "Production", "MusicString", "MusicPrimitive", "Split", "Repeat",
     "Symbol", "NonTerminal", "Terminal", "Note", "Duration", "MetaControl",
     "Instrument", "Volume"}

\* Scanner::scan of the scanner of that name.
scan(scanner, input) ==
    CASE scanner = "Grammar" -> GrammarScanner(input)
      [] scanner = "Production" -> ProductionScanner(input)
      [] scanner = "MusicString" -> MusicStringScanner(input)
      [] scanner = "MusicPrimitive" -> MusicPrimitiveScanner(input)
      [] scanner = "Split" -> MusicPrimitiveSplitScanner(input)
      [] scanner = "Repeat" -> MusicPrimitiveRepeatScanner(input)
      [] scanner = "Symbol" -> SymbolScanner(input)
      [] scanner = "NonTerminal" -> NonTerminalScanner(input)
      [] scanner = "Terminal" -> TerminalScanner(input)
      [] scanner = "Note" -> NoteScanner(input)
      [] scanner = "Duration" -> DurationScanner(input)
      [] scanner = "MetaControl" -> MetaControlScanner(input)
      [] scanner = "Instrument" -> InstrumentScanner(input)
      [] scanner = "Volume" -> VolumeScanner(input)

InitScan ==
    /\ s_checks \in BOOLEAN
    /\ s_input \in ScanInputs
    /\ s_scanner = "none" /\ s_result = [kind |-> "none"]
    /\ s_text = <<>> /\ s_again = [kind |-> "none"]
    /\ IdleTime /\ IdleSched /\ IdleCompose /\ IdleRewrite /\ IdleStep /\ IdlePipe /\ IdlePure

Scan ==
    /\ s_scanner = "none"
    /\ \E scanner \in ScannerNames :
          /\ s_scanner' = scanner
          /\ s_result' = scan(scanner, s_input)
    /\ UNCHANGED <<s_checks, s_input, s_text, s_again,
                   timeVars, schedVars, composeVars, rewriteVars, stepVars, pipeVars, pureVars>>

FromStr ==
    /\ s_scanner = "none"
    /\ s_scanner' = "from_str"
    /\ s_result' = MusicString_from_str(s_input)
    /\ UNCHANGED <<s_checks, s_input, s_text, s_again,
                   timeVars, schedVars, composeVars, rewriteVars, stepVars, pipeVars, pureVars>>

\* to_string of the parsed MusicString, and from_str of that text.
RoundTrip ==
    /\ s_scanner = "from_str" /\ s_result.kind = "ok"
    /\ s_scanner' = "round_trip"
    /\ IF to_string_panics(s_result.value)
       THEN s_text' = <<>> /\ s_again' = Scan_Panic
       ELSE /\ s_text' = MusicString_to_string(s_result.value)
            /\ s_again' = MusicString_from_str(s_text')
    /\ UNCHANGED <<s_checks, s_input, s_result,
                   timeVars, schedVars, composeVars, rewriteVars, stepVars, pipeVars, pureVars>>

NextScan == Scan \/ FromStr \/ RoundTrip

SpecScan == InitScan /\ [][NextScan]_vars

(***************************************************************************)
(* Properties of the scheduler.                                            *)
(***************************************************************************)
\* The absolute end of the last poll's window, in seconds.
WindowHorizon ==
    Beat_add(Beat_new(elapsed, 2), to_seconds(sched.lookahead, sched.time_signature))

\* The time of the k-th loop's occurrence of event e, in seconds.
OccurrenceTime(e, k) ==
    Beat_add(to_seconds(e.start, sched.time_signature),
             Beat_new(k * to_seconds(sched.loop_time, sched.time_signature)[1],
                      to_seconds(sched.loop_time, sched.time_signature)[2]))

\* The positions <<batch, index>> of all records returned so far.
HistoryPositions ==
    UNION {{<<j, k>> : k \in DOMAIN history[j]} : j \in DOMAIN history}

\* How many returned records have the pitch of event e and start at time t.
TimesReturned(e, t) ==
    Cardinality({jk \in HistoryPositions :
                    /\ history[jk[1]][jk[2]].pitch = to_frequency(e.pitch)
                    /\ history[jk[1]][jk[2]].time = t})

ScenarioEvents == sched.tracks[1].track.events

\* C1: in the scenario (looped, 4/4, loop of 4 beats, lookahead of 1 beat, polls at
\* 0.0, 0.5, 1.0, ...), every occurrence of every event of the loop is returned
\* exactly once: never twice, once when the polled windows have passed it (an
\* event at beat 0 included), and not before a window reaches it.
C1_EachOccurrenceOnce ==
    npolls >= 1 =>
        \A i \in DOMAIN ScenarioEvents : \A k \in 0..2 :
            LET e == ScenarioEvents[i]
                n == TimesReturned(e, OccurrenceTime(e, k))
            IN  /\ n <= 1
                /\ Beat_lt(OccurrenceTime(e, k), WindowHorizon) => n = 1
                /\ Beat_lt(WindowHorizon, OccurrenceTime(e, k)) => n = 0

\* C2: a scheduler that is not looped returns no event of any track in more than
\* one batch, whatever the non-decreasing elapsed times of the polls.
C2_NoRedelivery ==
    ~sched.looped =>
        \A i \in DOMAIN selected : \A k \in DOMAIN selected[i] :
            <<i, selected[i][k]>> \notin seen

(***************************************************************************)
(* Properties of the composer.  The nominal duration of a string is what   *)
(* its notation says: the sum of its notes and rests, the first branch of  *)
(* a Split, num times the content of a Repeat; it is computed from the     *)
(* string alone, as a number of beats.                                     *)
(***************************************************************************)
Beat_times(n, r) == Beat_new(n * r[1], r[2])

IsMusic(mp) == mp.kind = "Simple" /\ mp.sym.type \in {"Note", "Rest"}

RECURSIVE NominalBeats(_)
NominalBeats(ms) ==
    IF ms = <<>> THEN Beat_zero
    ELSE LET mp == Head(ms)
             d  == IF mp.kind = "Simple"
                   THEN IF IsMusic(mp) THEN total_beats(mp.sym.duration, Common)
                        ELSE Beat_zero
                   ELSE IF mp.kind = "Split"
                   THEN IF mp.branches = <<>> THEN Beat_zero
                        ELSE NominalBeats(mp.branches[1])
                   ELSE Beat_times(mp.num, NominalBeats(mp.content))
         IN  Beat_add(d, NominalBeats(Tail(ms)))

\* Some Split of the string, at any depth, has branches of unequal duration.
RECURSIVE Mismatched(_)
Mismatched(ms) ==
    \E k \in DOMAIN ms :
        \/ /\ ms[k].kind = "Split"
           /\ \/ \E i \in DOMAIN ms[k].branches : Mismatched(ms[k].branches[i])
              \/ \E i, j \in DOMAIN ms[k].branches :
                    NominalBeats(ms[k].branches[i]) # NominalBeats(ms[k].branches[j])
        \/ ms[k].kind = "Repeat" /\ Mismatched(ms[k].content)

RECURSIVE ContainsSplit(_)
ContainsSplit(ms) ==
    \E k \in DOMAIN ms :
        \/ ms[k].kind = "Split"
        \/ ms[k].kind = "Repeat" /\ ContainsSplit(ms[k].content)

\* The instrument in effect after the top-level meta-controls of a string.
RECURSIVE InstrumentAfter(_, _)
InstrumentAfter(ms, instrument) ==
    IF ms = <<>> THEN instrument
    ELSE LET mp == ms[Len(ms)] IN
         IF mp.kind = "Simple" /\ mp.sym.type = "ChangeInstrument"
         THEN mp.sym.instrument
         ELSE InstrumentAfter(SubSeq(ms, 1, Len(ms) - 1), instrument)

StartInstrument == IF c_start = "None" THEN "SineWave" ELSE c_start

ComposedBeats == total_beats(get_duration(c_result.comp), Common)

\* An event or rest of the given track list of the result.
InTrack(instrument, list, e) ==
    /\ instrument \in DOMAIN c_result.comp.tracks
    /\ e \in SeqRange(c_result.comp.tracks[instrument][list])

\* C3: compose succeeds exactly when no Split of the string, at any depth (inside
\* Split branches or Repeat content), has branches of unequal duration, and then a
\* Split advances the cursor by the duration its branches share: the composition
\* is as long as the notation says.  Otherwise the call returns MismatchedLengths.
C3_SplitDurations ==
    (c_called /\ ContainsSplit(c_input)) =>
        /\ c_result.ok <=> ~Mismatched(c_input)
        /\ c_result.ok => ComposedBeats = NominalBeats(c_input)
        /\ ~c_result.ok => c_result.err = "MismatchedLengths"

\* A Split of two branches of two beats each, after a note and before a note.
C3_Witness ==
    /\ c_called /\ c_result.ok
    /\ c_input = <<NoteC1, Split(<<<<NoteC1, NoteC1>>, <<NoteG2>>>>), NoteC1>>
    /\ ComposedBeats = <<4, 1>>

\* C4: a top-level Repeat{num, content} is composed from one composition of its
\* content: the result is num content durations longer than the rest of the
\* string, and holds, for every i below num, every event and rest of the composed
\* content shifted by the outer cursor plus i content durations, all other fields
\* unchanged; with num = 0 the result is that of the string without the Repeat.
C4_RepeatCopies ==
    (c_called /\ c_result.ok) =>
        \A k \in DOMAIN c_input :
            c_input[k].kind = "Repeat" =>
                LET pre     == SubSeq(c_input, 1, k - 1)
                    suf     == SubSeq(c_input, k + 1, Len(c_input))
                    num     == c_input[k].num
                    content == compose(c_input[k].content, Common,
                                       InstrumentAfter(pre, StartInstrument)).comp
                    d       == total_beats(get_duration(content), Common)
                    at(i, e) == [e EXCEPT !.start =
                                    as_music_time(
                                        Beat_add(NominalBeats(pre),
                                            Beat_add(Beat_times(i, d),
                                                     total_beats(e.start, Common))),
                                        Common)]
                IN  /\ ComposedBeats =
                          Beat_add(NominalBeats(pre),
                                   Beat_add(Beat_times(num, d), NominalBeats(suf)))
                    /\ \A j \in DOMAIN content.tracks : \A i \in 0..(num - 1) :
                          /\ \A e \in SeqRange(content.tracks[j].events) :
                                InTrack(j, "events", at(i, e))
                          /\ \A e \in SeqRange(content.tracks[j].rests) :
                                InTrack(j, "rests", at(i, e))
                    /\ num = 0 => c_result = compose(pre \o suf, Common, c_start)

\* Two copies of a three-terminal content, after a prefix that changes instrument.
C4_Witness ==
    /\ c_called /\ c_result.ok
    /\ c_input = <<ToPiano, ToVol80, NoteG2, Repeat(2, <<Rest1, ToVol80, NoteC1>>)>>
    /\ InTrack("Piano", "events",
               Event(MusicTime(1, Beat_whole(1)), Beat_whole(1), 80, <<4, 3>>))

OnlySimpleTerminals(ms) ==
    \A k \in DOMAIN ms : ms[k].kind = "Simple" /\ ms[k].sym.type # "NT"

\* The volume in effect after the top-level meta-controls of a string.
RECURSIVE VolumeAfter(_)
VolumeAfter(ms) ==
    IF ms = <<>> THEN 50
    ELSE LET mp == ms[Len(ms)] IN
         IF mp.kind = "Simple" /\ mp.sym.type = "ChangeVolume"
         THEN mp.sym.volume
         ELSE VolumeAfter(SubSeq(ms, 1, Len(ms) - 1))

\* C5: for a string of Simple terminals only, the duration of the composition is
\* the sum of the durations of its notes and rests (meta-controls count zero), and
\* the event of each note or rest starts at the sum of the durations before it.
C5_SimpleDurations ==
    (c_called /\ OnlySimpleTerminals(c_input)) =>
        /\ c_result.ok
        /\ ComposedBeats = NominalBeats(c_input)
        /\ \A k \in DOMAIN c_input :
              IsMusic(c_input[k]) =>
                 LET pre   == SubSeq(c_input, 1, k - 1)
                     sym   == c_input[k].sym
                     start == as_music_time(NominalBeats(pre), Common)
                     dur   == total_beats(sym.duration, Common)
                     instr == InstrumentAfter(pre, StartInstrument)
                 IN  IF sym.type = "Note"
                     THEN InTrack(instr, "events",
                                  Event(start, dur, VolumeAfter(pre), sym.pitch))
                     ELSE InTrack(instr, "rests", Event(start, dur, 0, <<0, 0>>))

\* Five beats, a meta-control and two more beats: the last note starts in measure 1.
C5_Witness ==
    /\ c_called /\ c_result.ok
    /\ c_input = <<NoteE5, ToPiano, NoteG2>>
    /\ ComposedBeats = <<7, 1>>
    /\ InTrack("Piano", "events", Event(MusicTime(1, Beat_whole(1)), Beat_whole(2), 50, <<4, 10>>))

(***************************************************************************)
(* Properties of the rewriting engine.                                     *)
(***************************************************************************)
\* The right-hand sides the grammar has for a NonTerminal.
RhsOf(name) ==
    {r_grammar.productions[i].rhs :
        i \in {j \in DOMAIN r_grammar.productions : r_grammar.productions[j].lhs = name}}

IsNT(mp) == mp.kind = "Simple" /\ mp.sym.type = "NT"

\* out is one simultaneous derivation step of in: primitive by primitive and in
\* order, a NonTerminal gives a right-hand side of one of its productions as it
\* stands (nothing when it has none), a terminal gives itself, a Split gives a
\* Split of as many branches, each a step of its branch, and a Repeat gives a
\* Repeat of the same num whose content is a step of its content.
RECURSIVE Derives(_, _)
Derives(in, out) ==
    IF in = <<>> THEN out = <<>>
    ELSE LET mp == Head(in) IN
         IF IsNT(mp)
         THEN IF RhsOf(mp.sym.name) = {} THEN Derives(Tail(in), out)
              ELSE \E rhs \in RhsOf(mp.sym.name) :
                      /\ Len(out) >= Len(rhs)
                      /\ SubSeq(out, 1, Len(rhs)) = rhs
                      /\ Derives(Tail(in), SubSeq(out, Len(rhs) + 1, Len(out)))
         ELSE /\ out # <<>>
              /\ IF mp.kind = "Simple" THEN out[1] = mp
                 ELSE IF mp.kind = "Split"
                 THEN /\ out[1].kind = "Split"
                      /\ Len(out[1].branches) = Len(mp.branches)
                      /\ \A i \in DOMAIN mp.branches :
                            Derives(mp.branches[i], out[1].branches[i])
                 ELSE /\ out[1].kind = "Repeat"
                      /\ out[1].num = mp.num
                      /\ Derives(mp.content, out[1].content)
              /\ Derives(Tail(in), Tail(out))

\* C6: every string parallel_rewrite returns is one simultaneous derivation step
\* of its input.
C6_ParallelStep ==
    \A i \in DOMAIN r_out : Derives(r_input, r_out[i])

\* A Split between two NonTerminals: both are replaced, the branches are rewritten
\* in place, and the A of the inserted right-hand side is not rewritten again.
C6_Witness ==
    /\ r_runs >= 1 /\ r_random
    /\ r_input = <<Split(<<<<SymA>>, <<SymB>>>>), SymA>>
    /\ r_out[1] = <<Split(<<<<NoteG2>>, <<>>>>), NoteC1, SymA, SymB>>

\* The string in which every NonTerminal is replaced by the right-hand side of the
\* first production of the grammar, in grammar order, that has it on the left.
RECURSIVE FirstRewrite(_)
FirstRewrite(ms) ==
    IF ms = <<>> THEN <<>>
    ELSE LET mp == Head(ms)
             matching == {j \in DOMAIN r_grammar.productions :
                             IsNT(mp) /\ r_grammar.productions[j].lhs = mp.sym.name}
             h == IF IsNT(mp)
                  THEN IF matching = {} THEN <<>>
                       ELSE r_grammar.productions[
                                CHOOSE j \in matching :
                                    \A k \in 1..(j - 1) : k \notin matching].rhs
                  ELSE IF mp.kind = "Split"
                  THEN <<Split([i \in DOMAIN mp.branches |-> FirstRewrite(mp.branches[i])])>>
                  ELSE IF mp.kind = "Repeat"
                  THEN <<Repeat(mp.num, FirstRewrite(mp.content))>>
                  ELSE <<mp>>
         IN  h \o FirstRewrite(Tail(ms))

\* C7: with random = false, all runs on the same grammar and input return the same
\* string, the one where each NonTerminal is replaced by the first production in
\* grammar order with that left-hand side, also when several share it.
C7_Deterministic ==
    ~r_random =>
        /\ \A i, j \in DOMAIN r_out : r_out[i] = r_out[j]
        /\ \A i \in DOMAIN r_out : r_out[i] = FirstRewrite(r_input)

\* Two runs without randomness on an input with A, which has two productions.
C7_Witness ==
    /\ ~r_random /\ r_runs = 2
    /\ r_input = <<SymA, NoteC1>>
    /\ r_out = <<<<NoteC1, SymA, SymB, NoteC1>>, <<NoteC1, SymA, SymB, NoteC1>>>>

Unmatched(mp) == IsNT(mp) /\ RhsOf(mp.sym.name) = {}

\* The string without its NonTerminals that have no production, at every depth.
RECURSIVE StripUnmatched(_)
StripUnmatched(ms) ==
    IF ms = <<>> THEN <<>>
    ELSE LET mp == Head(ms)
             h == IF Unmatched(mp) THEN <<>>
                  ELSE IF mp.kind = "Split"
                  THEN <<Split([i \in DOMAIN mp.branches |-> StripUnmatched(mp.branches[i])])>>
                  ELSE IF mp.kind = "Repeat"
                  THEN <<Repeat(mp.num, StripUnmatched(mp.content))>>
                  ELSE <<mp>>
         IN  h \o StripUnmatched(Tail(ms))

\* Every NonTerminal of the string, at every depth, has no production.
RECURSIVE NoMatchedNT(_)
NoMatchedNT(ms) ==
    \A k \in DOMAIN ms :
        /\ IsNT(ms[k]) => Unmatched(ms[k])
        /\ ms[k].kind = "Split" => \A i \in DOMAIN ms[k].branches : NoMatchedNT(ms[k].branches[i])
        /\ ms[k].kind = "Repeat" => NoMatchedNT(ms[k].content)

\* C8: a NonTerminal without production is dropped and the call still returns a
\* string: what is returned is a rewriting of the input without those
\* NonTerminals, so every other primitive is emitted in its original order; when
\* no NonTerminal has a production, it is the input without its NonTerminals.
C8_UnmatchedDropped ==
    \A i \in DOMAIN r_out :
        /\ r_out[i] \in parallel_rewrite(StripUnmatched(r_input), r_grammar, r_random)
        /\ NoMatchedNT(r_input) => r_out[i] = StripUnmatched(r_input)

\* C, which has no production, between a rewritten A and a terminal, and inside a
\* Repeat.
C8_Witness ==
    /\ r_runs >= 1 /\ ~r_random
    /\ r_input = <<SymC, Repeat(2, <<SymA, SymC>>), SymA>>
    /\ r_out[1] = <<Repeat(2, <<NoteC1, SymA, SymB>>), NoteC1, SymA, SymB>>

(***************************************************************************)
(* Properties of the time arithmetic.                                      *)
(***************************************************************************)
\* 0 <= beat < beatsPerMeasure
Normalized(time, time_signature) ==
    /\ time.beat[2] > 0
    /\ Beat_le(Beat_zero, time.beat)
    /\ Beat_lt(time.beat, Beat_whole(time_signature[1]))

\* The rational a - b for a >= b, reduced.
Beat_diff(a, b) == Beat_new(a[1] * b[2] - b[1] * a[2], a[2] * b[2])

\* The minuend is not smaller than the subtrahend, as a count of beats or in the
\* derived order of MusicTime.
NotSmaller(a, b) ==
    \/ Beat_le(total_beats(b, t_sig), total_beats(a, t_sig))
    \/ MT_le(b, a)

\* The minuend of the subtraction that gave t_res.
Minuend == IF t_op = "add_sub" THEN MT_add(t_a, t_b, t_sig) ELSE t_a

\* C9: every MusicTime returned by as_music_time, by an addition, by a subtraction
\* whose minuend is not smaller than its subtrahend and by a multiplication with a
\* ratio has 0 <= beat < beatsPerMeasure of the signature used, whether or not
\* the beats of the operands are themselves normalized.
C9_RepresentationInvariant ==
    (/\ t_outcome \in {"value", "wrapped"}
     /\ t_op \in {"sub", "add_sub"} => NotSmaller(Minuend, t_b))
        => Normalized(t_res, t_sig)

\* A subtraction with a subtrahend of five beats in 4/4: after the borrow the beat
\* subtraction goes below zero and the build without overflow checks returns a
\* MusicTime.
C9_Witness ==
    /\ t_op = "sub" /\ t_outcome = "wrapped" /\ t_sig = <<4, 4>>
    /\ t_a = MusicTime(2, Beat_zero) /\ t_b = MusicTime(0, Beat_whole(5))
    /\ t_res.beat = Beat_whole(3)

\* C10: for normalized a and b with total_beats(a) >= total_beats(b), a - b is
\* returned without overflow, borrows one measure exactly when b's beat exceeds
\* a's, is normalized and counts total_beats(a) - total_beats(b) beats; and
\* (a + b) - b = a.
C10_SubBorrow ==
    (Normalized(t_a, t_sig) /\ Normalized(t_b, t_sig)) =>
        /\ (t_op = "sub" /\ Beat_le(total_beats(t_b, t_sig), total_beats(t_a, t_sig))) =>
              /\ t_outcome = "value"
              /\ Normalized(t_res, t_sig)
              /\ total_beats(t_res, t_sig)
                    = Beat_diff(total_beats(t_a, t_sig), total_beats(t_b, t_sig))
              /\ t_res.measure = IF Beat_lt(t_a.beat, t_b.beat)
                                 THEN t_a.measure - t_b.measure - 1
                                 ELSE t_a.measure - t_b.measure
        /\ t_op = "add_sub" => (t_outcome = "value" /\ t_res = t_a)

\* The borrow of test_music_time_sub_2: in 4/4, one measure minus three beats is
\* one beat.
C10_Witness ==
    /\ t_op = "sub" /\ t_outcome = "value" /\ t_sig = <<4, 4>>
    /\ t_a = MusicTime(1, Beat_zero) /\ t_b = MusicTime(0, Beat_whole(3))
    /\ t_res = MusicTime(0, Beat_whole(1))

\* C11: subtracting a MusicTime that is larger than the minuend (a smaller measure
\* count, or an equal measure count with a larger beat) yields an explicit error
\* outcome, neither a panic nor a MusicTime wrapped modulo 2^32.
C11_UnderflowIsError ==
    (/\ t_op = "sub"
     /\ Normalized(t_a, t_sig) /\ Normalized(t_b, t_sig)
     /\ MT_lt(t_a, t_b))
        => t_outcome = "error"

(***************************************************************************)
(* Properties of the scanners.                                             *)
(***************************************************************************)
\* C12: for every input, every concrete scanner returns Ok((value, remainder)) or
\* Err(Generic | ExpectedEither) and never panics.
C12_ScannersNeverPanic ==
    s_scanner \in ScannerNames =>
        \/ s_result.kind = "ok"
        \/ s_result.kind = "err" /\ s_result.error \in {"Generic", "ExpectedEither"}

NTa == Simple(NT(<<"a">>))
NTb == Simple(NT(<<"b">>))
NTc == Simple(NT(<<"c">>))

\* Texts of a Split or a Repeat with a Split or a Repeat inside, each with the
\* structure its delimiters describe.
NestedTexts ==
    {<<TextSplitInSplit, Split(<<<<NTa>>, <<Split(<<<<NTb>>, <<NTc>>>>)>>>>)>>,
     <<TextSplitInSplitFirst, Split(<<<<Split(<<<<NTa>>, <<NTb>>>>)>>, <<NTc>>>>)>>,
     <<TextNestedNoBar,
       Repeat(2, <<Split(<<<<NTa>>, <<NTb>>>>),
                   Repeat(3, <<Simple(Note(<<4, 3>>, MusicTime_beats(1)))>>)>>)>>,
     <<TextTwoRepeats,
       Split(<<<<Repeat(2, <<Simple(Note(<<4, 3>>, MusicTime_beats(1)))>>)>>,
               <<Repeat(2, <<Simple(Note(<<4, 10>>, MusicTime_beats(1)))>>)>>>>)>>}

\* C13: the text of a Split or Repeat whose body contains Splits or Repeats is
\* scanned into the correspondingly nested structure, a '|' of a nested Split
\* separating the branches of the nested Split only.
C13_NestedDelimiters ==
    \A t \in NestedTexts :
        (s_scanner = "MusicPrimitive" /\ s_input = t[1]) => s_result = Scan_Ok(t[2], <<>>)

\* Every note of the string has a note number below 12.
RECURSIVE NotesInRange(_)
NotesInRange(ms) ==
    \A k \in DOMAIN ms :
        /\ (ms[k].kind = "Simple" /\ ms[k].sym.type = "Note") => ms[k].sym.pitch[2] <= 11
        /\ ms[k].kind = "Split" => \A i \in DOMAIN ms[k].branches : NotesInRange(ms[k].branches[i])
        /\ ms[k].kind = "Repeat" => NotesInRange(ms[k].content)

\* C14: a MusicString parsed from text, serialized by to_string and parsed again:
\* the second parse succeeds and gives the same MusicString.
C14_RoundTrip ==
    (s_scanner = "round_trip" /\ NotesInRange(s_result.value)) =>
        /\ s_again.kind = "ok"
        /\ s_again.value = s_result.value

\* s is t with something before it.
IsSuffix(s, t) == Len(s) <= Len(t) /\ s = Drop(t, Len(t) - Len(s))

C16_BatchSorted ==
    \A i, j \in DOMAIN batch : i < j => Beat_le(batch[i].time, batch[j].time)

\* The start in seconds of a selected event.
StartSeconds(e) == to_seconds(e.start, sched.time_signature)

\* A record of the Piano track precedes a record of the SineWave track, which is
\* the first track of the scheduler, and a record of the batch starts at a time
\* that is no selected event's own start.
C16_Witness ==
    /\ \E i, j \in DOMAIN batch :
          /\ i < j
          /\ batch[i].instrument = "Piano" /\ batch[j].instrument = "SineWave"
          /\ Beat_lt(batch[i].time, batch[j].time)
    /\ \E k \in DOMAIN batch :
          \A t \in DOMAIN selected : \A n \in DOMAIN selected[t] :
              StartSeconds(selected[t][n]) # batch[k].time

\* time + m * step
RECURSIVE Beat_plus(_, _, _)
Beat_plus(time, step, m) ==
    IF m = 0 THEN time ELSE Beat_plus(Beat_add(time, step), step, m - 1)

\* The record is the selected event e of a track with that instrument, moved
\* forward by m loop durations, m the least number that brings it to the elapsed
\* time of the poll or later.
MovedBy(record, instrument, e, m) ==
    LET loop_time_s == to_seconds(sched.loop_time, sched.time_signature) IN
    /\ record.instrument = instrument
    /\ record.pitch = to_frequency(e.pitch)
    /\ record.time = Beat_plus(StartSeconds(e), loop_time_s, m)
    /\ m > 0 => Beat_lt(Beat_plus(StartSeconds(e), loop_time_s, m - 1), Beat_new(elapsed, 2))

\* C17: no record of a returned batch starts before the elapsed time of the poll;
\* each is a selected event at its own start or moved forward by the least whole
\* number of loop durations that brings it out of the past.
C17_NotInPast ==
    \A k \in DOMAIN batch :
        /\ Beat_le(Beat_new(elapsed, 2), batch[k].time)
        /\ \E t \in DOMAIN selected : \E n \in DOMAIN selected[t] : \E m \in 0..elapsed :
              MovedBy(batch[k], sched.tracks[t].track.instrument, selected[t][n], m)

\* A record moved forward by two loop durations or more.
C17_Witness ==
    \E k \in DOMAIN batch :
        \E t \in DOMAIN selected : \E n \in DOMAIN selected[t] : \E m \in 2..elapsed :
            MovedBy(batch[k], sched.tracks[t].track.instrument, selected[t][n], m)

(***************************************************************************)
(* One poll, loop iteration by loop iteration.  k_pc is the position in    *)
(* get_next_events_and_update; k_current, k_end, k_end_non_looped and      *)
(* k_looping are its locals current_music_time, end_music_time,            *)
(* end_non_looped and looping; k_sounds holds the records of the selected  *)
(* events and k_i is the record the past-time adjustment is at.  The poll  *)
(* is of the Scheduler sched at the elapsed time elapsed / 2 s.            *)
(***************************************************************************)
MaxElapsed == 6   \* the elapsed time of the poll is 0 .. MaxElapsed half seconds

StepLookaheads == {MusicTime_zero, MusicTime_beats(1), MusicTime(1, Beat_zero)}
StepLoopTimes  == {MusicTime_zero, MusicTime_beats(2), MusicTime(1, Beat_zero)}

InitStep ==
    /\ \E tracks \in SchedTracks, lookahead \in StepLookaheads,
          looped \in BOOLEAN, loop_time \in StepLoopTimes :
          /\ sched = Scheduler(tracks, lookahead, looped, loop_time)
          /\ selected = [i \in 1..Len(tracks) |-> <<>>]
    /\ elapsed \in 0..MaxElapsed
    /\ npolls = 0 /\ batch = <<>> /\ seen = {} /\ history = <<>>
    /\ k_pc = "start" /\ k_current = MusicTime_zero /\ k_end = MusicTime_zero
    /\ k_end_non_looped = MusicTime_zero /\ k_looping = FALSE
    /\ k_sounds = <<>> /\ k_i = 0
    /\ IdleTime /\ IdleCompose /\ IdleRewrite /\ IdleScan /\ IdlePure /\ IdlePipe

StepOthers == <<npolls, seen, history, timeVars, composeVars, rewriteVars, scanVars, pureVars, pipeVars>>

\* let mut current_music_time = MusicTime::from_seconds(..)   (scheduler.rs 59)
StepEnter ==
    /\ k_pc = "start"
    /\ k_current' = from_seconds(sched.time_signature, elapsed)
    /\ k_pc' = "wrap_current"
    /\ UNCHANGED <<sched, elapsed, selected, batch, k_end, k_end_non_looped, k_looping,
                   k_sounds, k_i, StepOthers>>

\* The exit of the first loop: end_music_time, end_non_looped and the test of
\* `self.looped && end_music_time > loop_end` (scheduler.rs 64-67).
StepWindow(end) ==
    /\ k_end' = end
    /\ k_end_non_looped' = end
    /\ k_looping' = (sched.looped /\ MT_lt(sched.loop_time, end))
    /\ k_pc' = IF sched.looped /\ MT_lt(sched.loop_time, end) THEN "wrap_end" ELSE "select"

\* One test of `while current_music_time > loop_end`, with the body or the exit
\* (scheduler.rs 61-67).
StepWrapCurrent ==
    /\ k_pc = "wrap_current"
    /\ IF MT_lt(sched.loop_time, k_current)
       THEN /\ k_current' = MT_sub(k_current, sched.loop_time, sched.time_signature)
            /\ UNCHANGED <<k_pc, k_end, k_end_non_looped, k_looping>>
       ELSE /\ \E end \in {MT_add(k_current, sched.lookahead, sched.time_signature)} :
                  StepWindow(end)
            /\ UNCHANGED k_current
    /\ UNCHANGED <<sched, elapsed, selected, batch, k_sounds, k_i, StepOthers>>

\* One test of `while end_music_time > loop_end`, with the body or the exit
\* (scheduler.rs 68-70).
StepWrapEnd ==
    /\ k_pc = "wrap_end"
    /\ IF MT_lt(sched.loop_time, k_end)
       THEN /\ k_end' = MT_sub(k_end, sched.loop_time, sched.time_signature)
            /\ UNCHANGED k_pc
       ELSE /\ k_pc' = "select"
            /\ UNCHANGED k_end
    /\ UNCHANGED <<sched, elapsed, selected, batch, k_current, k_end_non_looped, k_looping,
                   k_sounds, k_i, StepOthers>>

\* The events selected for one (track, cursor) pair from the locals of the poll
\* (scheduler.rs 77-92).
select_events_at(track, cursor) ==
    IF k_looping
    THEN IF MT_lt(k_end_non_looped, cursor)
         THEN <<>>
         ELSE IF MT_le(cursor, k_end)
              THEN get_events_starting_between(track, cursor, k_end, TRUE)
              ELSE get_events_starting_between(track, cursor, sched.loop_time, TRUE)
                   \o get_events_starting_between(track, MusicTime_zero, k_end, FALSE)
    ELSE get_events_starting_between(track, cursor, k_end, TRUE)

\* The record of a selected event before the adjustment (scheduler.rs 95-107).
raw_sound(s, track, e) ==
    [time       |-> to_seconds(e.start, s.time_signature),
     duration   |-> to_seconds(as_music_time(e.duration, s.time_signature), s.time_signature),
     volume     |-> e.volume,
     instrument |-> track.instrument,
     pitch      |-> to_frequency(e.pitch)]

StepSelected(sel) ==
    /\ selected' = sel
    /\ sched' = [sched EXCEPT !.tracks =
                    [i \in 1..Len(sched.tracks) |->
                        [track |-> sched.tracks[i].track, cursor |-> k_end]]]
    /\ k_sounds' = FlattenSeq([i \in 1..Len(sched.tracks) |->
                      [n \in 1..Len(sel[i]) |->
                          raw_sound(sched, sched.tracks[i].track, sel[i][n])]])
    /\ k_i' = 1
    /\ k_pc' = "adjust"

\* The selection of the events of every track, the move of the cursors and the
\* records of the events (scheduler.rs 75-107).
StepSelect ==
    /\ k_pc = "select"
    /\ \E sel \in {[i \in 1..Len(sched.tracks) |->
                      select_events_at(sched.tracks[i].track, sched.tracks[i].cursor)]} :
          StepSelected(sel)
    /\ UNCHANGED <<elapsed, batch, k_current, k_end, k_end_non_looped, k_looping, StepOthers>>

\* One test of `while se.time < current_track_pos` for the record k_i, with the
\* body or the move to the next record; after the last record the sort and the
\* return (scheduler.rs 108-119).
StepAdjust ==
    /\ k_pc = "adjust"
    /\ IF k_i > Len(k_sounds)
       THEN /\ batch' = sort_vec("sound", k_sounds)
            /\ k_pc' = "returned"
            /\ UNCHANGED <<k_sounds, k_i>>
       ELSE IF Beat_lt(k_sounds[k_i].time, Beat_new(elapsed, 2))
            THEN /\ k_sounds' = [k_sounds EXCEPT ![k_i].time =
                                    Beat_add(@, to_seconds(sched.loop_time,
                                                           sched.time_signature))]
                 /\ UNCHANGED <<batch, k_pc, k_i>>
            ELSE /\ k_i' = k_i + 1
                 /\ UNCHANGED <<batch, k_pc, k_sounds>>
    /\ UNCHANGED <<sched, elapsed, selected, k_current, k_end, k_end_non_looped, k_looping,
                   StepOthers>>

NextStep == StepEnter \/ StepWrapCurrent \/ StepWrapEnd \/ StepSelect \/ StepAdjust

SpecStep == InitStep /\ [][NextStep]_vars

\* The thread that runs the poll is scheduled: it takes its next step.
SpecStepLive == SpecStep /\ WF_vars(NextStep)

(***************************************************************************)
(* The playback pipeline of run / run_midi: the producer thread polls the  *)
(* scheduler and sends the batch on the channel chan, the consumer thread  *)
(* runs play_from_ordered_channel.  now is the clock in half seconds; both *)
(* threads start at 0.  p_pc and c_pc are the positions of the threads,    *)
(* p_wake the end of the producer's sleep, sent all records sent so far,   *)
(* c_hand the record the consumer holds, c_wake the end of its sleep and   *)
(* c_end its local end, both as seconds since its start_time, played the   *)
(* records realized with the clock at their receipt and at their play.     *)
(***************************************************************************)
MaxClock   == 10   \* the clock runs to MaxClock half seconds
TickHalves == 1    \* scheduler_tick_ms, in half seconds

\* start_pause of Player::play_from_ordered_channel; AudioPlayer has none.
start_pause(player) == IF player = "Player" THEN <<1, 10>> ELSE Beat_zero

Players == {"Player", "AudioPlayer"}

\* The latest of a set of ends, zero for the empty set.
latest_end(ends) == IF ends = {} THEN MusicTime_zero ELSE MT_max(ends)

\* The latest end of an event of the scheduler's tracks, zero without events.
tracks_end(s) ==
    CHOOSE end \in
        {latest_end(ends) :
            ends \in {UNION {Track_ends(s.tracks[i].track, s.time_signature) :
                                i \in DOMAIN s.tracks}}} : TRUE

\* Scheduler::ended: not looped and every cursor at or past the end.
ended(s) ==
    /\ ~s.looped
    /\ \E end \in {tracks_end(s)} : \A i \in DOMAIN s.tracks : MT_le(end, s.tracks[i].cursor)

PipeLookaheads == {MusicTime_beats(1), MusicTime(1, Beat_zero)}
PipeLoopTimes  == {MusicTime(1, Beat_zero)}

InitPipe ==
    /\ \E tracks \in SchedTracks, lookahead \in PipeLookaheads,
          looped \in BOOLEAN, loop_time \in PipeLoopTimes :
          /\ sched = Scheduler(tracks, lookahead, looped, loop_time)
          /\ selected = [i \in 1..Len(tracks) |-> <<>>]
    /\ elapsed = 0 /\ npolls = 0 /\ batch = <<>> /\ seen = {} /\ history = <<>>
    /\ now = 0 /\ p_pc = "loop" /\ p_wake = 0 /\ chan = <<>> /\ sent = <<>>
    /\ c_player \in Players /\ c_pc = "recv" /\ c_wake = Beat_zero /\ c_hand = <<>>
    /\ played = <<>> /\ c_end = Beat_zero
    /\ IdleTime /\ IdleCompose /\ IdleRewrite /\ IdleScan /\ IdlePure /\ IdleStep

PipeOthers == <<timeVars, composeVars, rewriteVars, scanVars, pureVars, stepVars>>

\* The consumer has a step to take at this clock value.
ConsumerDue ==
    \/ c_pc = "recv" /\ (chan # <<>> \/ p_pc = "exited")
    \/ c_pc \in {"sleep", "final"} /\ Beat_le(c_wake, Beat_add(Beat_new(now, 2), start_pause(c_player)))

\* The clock advances.  The consumer is not delayed; the producer wakes from its
\* sleep at its wake time or later.
Tock ==
    /\ now < MaxClock
    /\ ~ConsumerDue
    /\ now' = now + 1
    /\ UNCHANGED <<schedVars, p_pc, p_wake, chan, sent, c_player, c_pc, c_wake, c_hand,
                   played, c_end, PipeOthers>>

\* One iteration of the producer's loop with ended() false: the poll at the
\* elapsed time, the send of every record and the sleep (local_playback.rs 14-25).
ProducerPoll ==
    /\ p_pc = "loop" /\ p_wake <= now
    /\ ~ended(sched)
    /\ get_next_events_and_update(now)
    /\ chan' = chan \o batch'
    /\ sent' = sent \o batch'
    /\ p_wake' = now + TickHalves
    /\ UNCHANGED <<now, p_pc, c_player, c_pc, c_wake, c_hand, played, c_end, PipeOthers>>

\* ended() is true: the loop breaks, the thread ends and drops the Sender.
ProducerExit ==
    /\ p_pc = "loop" /\ p_wake <= now
    /\ ended(sched)
    /\ p_pc' = "exited"
    /\ UNCHANGED <<schedVars, now, p_wake, chan, sent, c_player, c_wake, c_pc, c_hand,
                   played, c_end, PipeOthers>>

\* Seconds since the consumer's start_time.
consumer_elapsed == Beat_add(Beat_new(now, 2), start_pause(c_player))

\* No wait at all.
wait_time_none(start, elapsed_s) == Beat_zero

\* f32::max(wait_time, 0.) with wait_time = start - elapsed (player.rs 86-91).
wait_time(start, elapsed_s) ==
    IF Beat_lt(elapsed_s, start) THEN Beat_sub(start, elapsed_s) ELSE Beat_zero

\* The consumer takes the next record of the queue and starts its sleep
\* (player.rs 82-90).
ConsumerRecv ==
    /\ c_pc = "recv" /\ chan # <<>>
    /\ c_hand' = [sound |-> Head(chan), recv |-> now, at |-> now]
    /\ chan' = Tail(chan)
    /\ c_wake' = Beat_add(consumer_elapsed, wait_time(Head(chan).time, consumer_elapsed))
    /\ c_pc' = "sleep"
    /\ UNCHANGED <<schedVars, now, p_pc, p_wake, sent, c_player, played, c_end, PipeOthers>>

Beat_max(a, b) == IF Beat_lt(a, b) THEN b ELSE a

\* The sleep is over: end is updated and the record is played (player.rs 91-93).
ConsumerPlay ==
    /\ c_pc = "sleep" /\ Beat_le(c_wake, consumer_elapsed)
    /\ c_end' = Beat_max(c_end, Beat_add(c_wake, c_hand.sound.duration))
    /\ played' = Append(played, [c_hand EXCEPT !["at"] = now])
    /\ c_hand' = <<>>
    /\ c_pc' = "recv"
    /\ UNCHANGED <<schedVars, now, p_pc, p_wake, chan, sent, c_player, c_wake, PipeOthers>>

\* The queue is empty and the Sender dropped: the for loop ends and the consumer
\* waits for end, or for one second when end is over (player.rs 95-99).
ConsumerFinish ==
    /\ c_pc = "recv" /\ chan = <<>> /\ p_pc = "exited"
    /\ c_wake' = IF Beat_le(consumer_elapsed, c_end) THEN c_end
                 ELSE Beat_add(consumer_elapsed, Beat_whole(1))
    /\ c_pc' = "final"
    /\ UNCHANGED <<schedVars, now, p_pc, p_wake, chan, sent, c_player, c_hand, played,
                   c_end, PipeOthers>>

ConsumerReturn ==
    /\ c_pc = "final" /\ Beat_le(c_wake, consumer_elapsed)
    /\ c_pc' = "returned"
    /\ UNCHANGED <<schedVars, now, p_pc, p_wake, chan, sent, c_player, c_wake, c_hand,
                   played, c_end, PipeOthers>>

NextPipe ==
    \/ Tock \/ ProducerPoll \/ ProducerExit
    \/ ConsumerRecv \/ ConsumerPlay \/ ConsumerFinish \/ ConsumerReturn

SpecPipe == InitPipe /\ [][NextPipe]_vars

(***************************************************************************)
(* The producer's loop over unbounded time.  The poll reads the elapsed    *)
(* time through current_music_time, which is wrapped by loop_time, and     *)
(* through the adjustment of the records; the records are not followed     *)
(* here, and elapsed is kept wrapped by the loop duration.  The poll is    *)
(* the poll of SpecStep.                                                   *)
(***************************************************************************)
\* Half seconds from one poll to the next: the tick, or the tick and a delay.
RunSteps == {TickHalves, TickHalves + 1}

loop_halves(s) ==
    (2 * to_seconds(s.loop_time, s.time_signature)[1])
        \div to_seconds(s.loop_time, s.time_signature)[2]

wrapped(s, halves) == IF halves > loop_halves(s) THEN halves - loop_halves(s) ELSE halves

RunOthers == <<npolls, seen, history, timeVars, composeVars, rewriteVars, scanVars, pureVars,
               now, p_wake, chan, sent, c_player, c_wake, c_hand, played, c_end>>

\* ended() is false: the poll is called (local_playback.rs 15-20).
RunPoll ==
    /\ p_pc = "loop" /\ k_pc = "idle"
    /\ ~ended(sched)
    /\ k_pc' = "start"
    /\ p_pc' = "polling"
    /\ UNCHANGED <<sched, elapsed, selected, batch, k_current, k_end, k_end_non_looped,
                   k_looping, k_sounds, k_i, c_pc, RunOthers>>

\* The poll has returned: the records are sent (local_playback.rs 21-23).
RunSend ==
    /\ p_pc = "polling" /\ k_pc = "returned"
    /\ k_pc' = "idle"
    /\ p_pc' = "sleep"
    /\ UNCHANGED <<sched, elapsed, selected, batch, k_current, k_end, k_end_non_looped,
                   k_looping, k_sounds, k_i, c_pc, RunOthers>>

\* thread::sleep of the tick: the next iteration is a tick or more later.
RunSleep ==
    /\ p_pc = "sleep"
    /\ \E step \in RunSteps : elapsed' = wrapped(sched, elapsed + step)
    /\ p_pc' = "loop"
    /\ UNCHANGED <<sched, selected, batch, stepVars, c_pc, RunOthers>>

RunExit ==
    /\ p_pc = "loop" /\ k_pc = "idle"
    /\ ended(sched)
    /\ p_pc' = "exited"
    /\ UNCHANGED <<sched, elapsed, selected, batch, stepVars, c_pc, RunOthers>>

\* The Sender is dropped: the consumer's for loop ends and it returns.
RunReturn ==
    /\ p_pc = "exited" /\ c_pc = "recv"
    /\ c_pc' = "returned"
    /\ UNCHANGED <<sched, elapsed, selected, batch, stepVars, p_pc, RunOthers>>

NextRun ==
    \/ RunPoll \/ RunSend \/ RunSleep \/ RunExit \/ RunReturn
    \/ StepEnter \/ StepWrapCurrent \/ StepWrapEnd \/ StepSelect \/ StepAdjust

\* Both threads are scheduled.
SpecRun == InitPipe /\ [][NextRun]_vars /\ WF_vars(NextRun)

\* C18: every poll returns: from every scheduler and every elapsed time the
\* position "returned" is reached.
C18_PollReturns == <>(k_pc = "returned")

\* C19: with a scheduler that is not looped the consumer returns at last; with a
\* looped scheduler the producer never exits.
C19_NonLoopedEnds ==
    /\ <>(sched.looped \/ c_pc = "returned")
    /\ [](sched.looped => p_pc # "exited")

\* The records realized, in the order of their play.
PlayedSounds == [k \in DOMAIN played |-> played[k].sound]

\* The record the consumer holds during its sleep.
InHand == IF c_pc = "sleep" THEN <<c_hand.sound>> ELSE <<>>

\* Seconds since the consumer's start_time at the clock value t.
SinceStart(t) == Beat_add(Beat_new(t, 2), start_pause(c_player))

\* The end predicted for a record: its start, or its receipt when that is later,
\* and its duration.
PredictedEnd(p) == Beat_add(Beat_max(SinceStart(p.recv), p.sound.time), p.sound.duration)

\* C20: the records played, the record in the consumer's hand and the records in
\* the channel are, in this order, the records sent; no record is played before
\* its start time since the consumer's start_time; the consumer returns with
\* every record sent played and not before the predicted end of any of them.
C20_PlayedOnceInOrder ==
    /\ PlayedSounds \o InHand \o chan = sent
    /\ \A k \in DOMAIN played : Beat_le(played[k].sound.time, SinceStart(played[k].at))
    /\ c_pc = "returned" =>
          /\ PlayedSounds = sent
          /\ \A k \in DOMAIN played : Beat_le(PredictedEnd(played[k]), SinceStart(now))

\* The consumer has returned after two records or more, one of them played after
\* a sleep and one played late.
C20_Witness ==
    /\ c_pc = "returned" /\ Len(played) >= 2
    /\ \E k \in DOMAIN played : played[k].recv < played[k].at
    /\ \E k \in DOMAIN played : Beat_lt(played[k].sound.time, SinceStart(played[k].at))

(***************************************************************************)
(* Frame and window properties of the poll.                                *)
(***************************************************************************)
\* C21: a poll changes nothing of the Scheduler but the cursors: the tracks with
\* their events, identifier and instrument, bpm, time_signature, lookahead, looped
\* and loop_time are after every poll what they were before it.
C21_OnlyCursorsChange ==
    [][/\ sched'.bpm = sched.bpm
       /\ sched'.time_signature = sched.time_signature
       /\ sched'.lookahead = sched.lookahead
       /\ sched'.looped = sched.looped
       /\ sched'.loop_time = sched.loop_time
       /\ Len(sched'.tracks) = Len(sched.tracks)
       /\ \A i \in DOMAIN sched.tracks : sched'.tracks[i].track = sched.tracks[i].track]_vars

\* A poll has selected events and moved the cursors.
C21_Witness ==
    /\ npolls >= 2
    /\ batch # <<>>
    /\ \A i \in DOMAIN sched.tracks : sched.tracks[i].cursor # MusicTime_zero

(***************************************************************************)
(* The context of nested strings.                                          *)
(***************************************************************************)
\* The interpreter state of the call on c_input when it reaches primitive k.
OuterAt(k) ==
    compose_from(SubSeq(c_input, 1, k - 1),
                 ComposeState(<<>>, MusicTime_zero,
                              IF c_start = "None" THEN "SineWave" ELSE c_start, 50),
                 Common)

\* Every branch of a top-level Split that begins with a note has that note in the
\* track of the outer current instrument, at the outer cursor and, when volume is
\* asked for, with the outer current volume.
BranchFirstNotePlaced(with_volume) ==
    (c_called /\ c_result.ok) =>
        \A k \in DOMAIN c_input :
            c_input[k].kind = "Split" =>
                \A b \in DOMAIN c_input[k].branches :
                    LET branch == c_input[k].branches[b]
                        outer == OuterAt(k)
                    IN  (branch # <<>> /\ branch[1].kind = "Simple"
                                      /\ branch[1].sym.type = "Note") =>
                            /\ outer.current_instrument \in DOMAIN c_result.comp.tracks
                            /\ \E e \in SeqRange(c_result.comp.tracks[outer.current_instrument].events) :
                                   /\ e.start = outer.current_mt
                                   /\ e.pitch = branch[1].sym.pitch
                                   /\ with_volume => e.volume = outer.current_volume

\* C22: at a Split every branch is composed from the outer cursor, the outer
\* current instrument and the outer current volume: a note that opens a branch is
\* an event of the outer instrument's track at the outer cursor with the outer
\* volume.
C22_BranchContext == BranchFirstNotePlaced(TRUE)

\* The tracks of the result that hold exactly events of the given pitch at beat 0
\* and beat 1.
VoiceTracks(pitch) ==
    {i \in DOMAIN c_result.comp.tracks :
        LET events == c_result.comp.tracks[i].events
        IN  /\ Len(events) = 2
            /\ \A k \in DOMAIN events : events[k].pitch = pitch
            /\ {events[k].start : k \in DOMAIN events}
                  = {MusicTime_zero, MusicTime_beats(1)}}

\* The part of the scenario that does not count tracks: the call succeeds, the
\* composition lasts 2 beats, and it has two c events and two g events, one of
\* each at beat 0 and at beat 1.
TwoVoicesEvents ==
    (c_called /\ c_input = TwoVoices) =>
        /\ c_result.ok
        /\ get_duration(c_result.comp) = MusicTime_beats(2)
        /\ \A pitch \in {<<4, 3>>, <<4, 10>>} : \A start \in {MusicTime_zero, MusicTime_beats(1)} :
               \E i \in DOMAIN c_result.comp.tracks :
                   Cardinality({k \in DOMAIN c_result.comp.tracks[i].events :
                                   /\ c_result.comp.tracks[i].events[k].pitch = pitch
                                   /\ c_result.comp.tracks[i].events[k].start = start}) = 1

\* C23: "{[2][:c] | [2][:g]}" under 4/4 composes to a composition of 2 beats with
\* two tracks of one instrument, one holding the two c events and the other the
\* two g events, both at beat 0 and beat 1.
C23_TwoTracks ==
    (c_called /\ c_input = TwoVoices) =>
        /\ TwoVoicesEvents
        /\ \E i \in VoiceTracks(<<4, 3>>) : \E j \in VoiceTracks(<<4, 10>>) :
               /\ i # j
               /\ c_result.comp.tracks[i].instrument = c_result.comp.tracks[j].instrument

(***************************************************************************)
(* Pitch::transpose, on 8-bit integers.                                    *)
(***************************************************************************)
I8Min == -128   \* i8::MIN
I8Max == 127    \* i8::MAX

\* The i8 with the bits of x: an `as i8` cast, and a sum without overflow checks.
i8_wrap(x) == ((x + 128) % 256) - 128

\* What an i8 addition gives: its value, or where it leaves the range a panic
\* (overflow checks on) or the wrapped value (overflow checks off).
i8_add_outcomes(a, b) ==
    IF a + b \in I8Min..I8Max
    THEN {[outcome |-> "value", res |-> a + b]}
    ELSE {[outcome |-> "panic", res |-> 0], [outcome |-> "wrapped", res |-> i8_wrap(a + b)]}

\* The worse of two outcomes of one call.
worse(o1, o2) ==
    IF "panic" \in {o1, o2} THEN "panic"
    ELSE IF "wrapped" \in {o1, o2} THEN "wrapped" ELSE "value"

\* A plausible slip: the octave step by a division that rounds toward zero.
transpose_outcomes_truncating(pitch, semitones) ==
    {[outcome |-> worse(sum.outcome, oct.outcome),
      res |-> IF worse(sum.outcome, oct.outcome) = "panic" THEN pitch
              ELSE <<oct.res, sum.res % 12>>] :
        sum \in i8_add_outcomes(i8_wrap(pitch[2]), semitones),
        oct \in UNION {i8_add_outcomes(pitch[1],
                                       IF q.res >= 0 THEN q.res \div 12
                                       ELSE -((-q.res) \div 12)) :
                          q \in i8_add_outcomes(i8_wrap(pitch[2]), semitones)}}

\* Pitch::transpose: the pitches the call can leave in *self. The sum
\* `note_num as i8 + semitones` is evaluated twice with the same operands; the new
\* note is its rem_euclid(12), the new octave is the old one plus the floor of the
\* sum over 12. A panic leaves the pitch as it was.
transpose_outcomes(pitch, semitones) ==
    UNION {
        {[outcome |-> worse(sum.outcome, oct.outcome),
          res |-> IF worse(sum.outcome, oct.outcome) = "panic" THEN pitch
                  ELSE <<oct.res, sum.res % 12>>] :
            oct \in i8_add_outcomes(pitch[1], sum.res \div 12)} :
        sum \in i8_add_outcomes(i8_wrap(pitch[2]), semitones)}

\* The octaves of the pitches drawn: both ends of i8, the octaves next to the
\* ends that a transposition can leave, and octaves in the middle.
Octaves == {I8Min, I8Min + 10, I8Min + 11, -1, 0, 4, I8Max - 11, I8Max - 10, I8Max}

InitTranspose ==
    /\ x_fn = "transpose"
    /\ x_args \in [pitch : Octaves \X (0..11), semitones : I8Min..I8Max]
    /\ x_ret = <<>>
    /\ IdleTime /\ IdleSched /\ IdleCompose /\ IdleRewrite /\ IdleScan /\ IdleStep /\ IdlePipe

PureOthers ==
    <<timeVars, schedVars, composeVars, rewriteVars, scanVars, stepVars, pipeVars>>

\* pitch.transpose(semitones)
Transpose ==
    /\ x_fn = "transpose" /\ x_ret = <<>>
    /\ \E out \in transpose_outcomes(x_args.pitch, x_args.semitones) :
          x_ret' = <<out>>
    /\ UNCHANGED <<x_fn, x_args, PureOthers>>

\* pitch.transpose(-semitones) on the pitch the first call left; -semitones is an
\* i8 for every semitones but i8::MIN.
TransposeBack ==
    /\ x_fn = "transpose" /\ Len(x_ret) = 1
    /\ x_ret[1].outcome # "panic"
    /\ x_args.semitones # I8Min
    /\ \E out \in transpose_outcomes(x_ret[1].res, -x_args.semitones) :
          x_ret' = Append(x_ret, out)
    /\ UNCHANGED <<x_fn, x_args, PureOthers>>

NextTranspose == Transpose \/ TransposeBack

SpecTranspose == InitTranspose /\ [][NextTranspose]_vars

\* The number of the pitch in semitones.
Semitone(pitch) == 12 * pitch[1] + pitch[2]

\* C24: a transposition whose 8-bit arithmetic does not overflow leaves a pitch
\* with note in [0, 12) that is s semitones above the one it was given, and a
\* transposition by s followed by one by -s, neither overflowing, restores the
\* pitch.
C24_Transpose ==
    x_fn = "transpose" =>
        /\ (Len(x_ret) >= 1 /\ x_ret[1].outcome = "value") =>
               /\ x_ret[1].res[2] \in 0..11
               /\ Semitone(x_ret[1].res) = Semitone(x_args.pitch) + x_args.semitones
        /\ (Len(x_ret) = 2 /\ x_ret[2].outcome = "value") =>
               /\ x_ret[2].res[2] \in 0..11
               /\ Semitone(x_ret[2].res) = Semitone(x_ret[1].res) - x_args.semitones
        /\ (Len(x_ret) = 2 /\ x_ret[1].outcome = "value" /\ x_ret[2].outcome = "value") =>
               x_ret[2].res = x_args.pitch

\* A transposition downwards across an octave, and back, without overflow.
C24_Witness ==
    /\ x_fn = "transpose" /\ Len(x_ret) = 2
    /\ x_ret[1].outcome = "value" /\ x_ret[2].outcome = "value"
    /\ x_args.semitones < 0
    /\ x_ret[1].res[1] < x_args.pitch[1]
    /\ x_ret[1].res[2] > x_args.pitch[2]

(***************************************************************************)
(* Track::reverse, Track::compress and Composition::compress.              *)
(***************************************************************************)
MaxTrackEvents == 2   \* events of the tracks drawn by InitCompress

Reversed(s) == [i \in DOMAIN s |-> s[Len(s) + 1 - i]]

\* Track::reverse: every event and rest goes to (end - offset) - duration, and
\* both lists are reversed; a track without events or rests is left as it is.
Track_reverse(track, time_signature) ==
    IF Track_starts(track) = {} THEN track
    ELSE LET start == MT_min(Track_starts(track))
             end   == MT_max(Track_ends(track, time_signature))
             moved(e) ==
                 LET offset == MT_sub(e.start, start, time_signature)
                 IN  [e EXCEPT !.start =
                         MT_sub(MT_sub(end, offset, time_signature),
                                as_music_time(e.duration, time_signature),
                                time_signature)]
         IN  [track EXCEPT
                 !.events = Reversed([i \in DOMAIN track.events |-> moved(track.events[i])]),
                 !.rests  = Reversed([i \in DOMAIN track.rests |-> moved(track.rests[i])])]

\* The loop of Track::compress over the events and rests (composition.rs 220-228).
Track_scale(track, time_signature, factor) ==
    IF Track_starts(track) = {} THEN track
    ELSE LET start == MT_min(Track_starts(track))
             scaled(e) ==
                 LET offset == MT_mul(MT_sub(e.start, start, time_signature),
                                      factor, time_signature)
                 IN  [e EXCEPT
                         !.start = MT_add(start, offset, time_signature),
                         !.duration =
                             total_beats(MT_mul(as_music_time(e.duration, time_signature),
                                                factor, time_signature),
                                         time_signature)]
         IN  [track EXCEPT
                 !.events = [i \in DOMAIN track.events |-> scaled(track.events[i])],
                 !.rests  = [i \in DOMAIN track.rests |-> scaled(track.rests[i])]]

Int_abs(n) == IF n < 0 THEN -n ELSE n

\* A plausible slip: the start of every event scaled, not its offset from the
\* start of the track.
Track_compress_from_zero(track, time_signature, compression) ==
    LET turned == IF compression[1] < 0 THEN Track_reverse(track, time_signature)
                  ELSE track
        factor == <<Int_abs(compression[1]), Int_abs(compression[2])>>
        scaled(e) ==
            [e EXCEPT
                !.start = MT_mul(e.start, factor, time_signature),
                !.duration =
                    total_beats(MT_mul(as_music_time(e.duration, time_signature),
                                       factor, time_signature),
                                time_signature)]
    IN  [turned EXCEPT
            !.events = [i \in DOMAIN turned.events |-> scaled(turned.events[i])],
            !.rests  = [i \in DOMAIN turned.rests |-> scaled(turned.rests[i])]]

\* Track::compress; compression is the Ratio<isize> of TimeCompression, a pair
\* with a positive denominator.
Track_compress(track, time_signature, compression) ==
    LET turned == IF compression[1] < 0 THEN Track_reverse(track, time_signature)
                  ELSE track
        factor == <<Int_abs(compression[1]), Int_abs(compression[2])>>
    IN  Track_scale(turned, time_signature, factor)

\* Composition::compress
Composition_compress(c, compression) ==
    [c EXCEPT !.tracks =
        [i \in DOMAIN c.tracks |-> Track_compress(c.tracks[i], c.time_signature, compression)]]

\* A subtraction of Track::reverse or Track::compress on this track overflows.
Track_sub_overflows(track, time_signature) ==
    /\ Track_starts(track) # {}
    /\ LET start == MT_min(Track_starts(track))
           end   == MT_max(Track_ends(track, time_signature))
       IN  \E e \in SeqRange(track.events) \cup SeqRange(track.rests) :
               \/ sub_overflows(e.start, start, time_signature)
               \/ sub_overflows(end, MT_sub(e.start, start, time_signature), time_signature)
               \/ sub_overflows(MT_sub(end, MT_sub(e.start, start, time_signature),
                                       time_signature),
                                as_music_time(e.duration, time_signature), time_signature)

\* The events, rests and factors drawn: normalized starts in two measures of 4/4,
\* durations of half a beat and of more than a measure.
CompressStarts ==
    {MusicTime(0, Beat_new(1, 2)), MusicTime(0, Beat_whole(3)), MusicTime(1, Beat_whole(1))}
CompressDurations == {Beat_new(1, 2), Beat_whole(5)}
CompressEvents ==
    {Event(start, duration, 100, <<4, 0>>) :
        start \in CompressStarts, duration \in CompressDurations}
CompressRests ==
    {<<>>, <<Event(MusicTime_zero, Beat_whole(1), 0, <<0, 0>>)>>,
           <<Event(MusicTime(1, Beat_whole(3)), Beat_whole(2), 0, <<0, 0>>)>>}
CompressFactors == {<<1, 2>>, <<1, 1>>, <<3, 2>>, <<2, 1>>, <<-1, 1>>, <<-1, 2>>, <<-2, 1>>}

\* The events of a track numbered by their pitch, to tell them apart.
Numbered(events) == [i \in DOMAIN events |-> [events[i] EXCEPT !.pitch = <<4, i - 1>>]]

\* A track of another instrument that starts in the third measure.
OtherTrack ==
    Track(<<"Custom", 1>>, "Piano",
          <<Event(MusicTime(2, Beat_whole(1)), Beat_whole(1), 100, <<4, 0>>),
            Event(MusicTime(2, Beat_zero), Beat_whole(1), 100, <<4, 2>>)>>, <<>>)

InitCompress ==
    /\ x_fn = "compress"
    /\ \E events \in SeqsUpTo(CompressEvents, MaxTrackEvents), rests \in CompressRests,
          others \in {<<>>, <<OtherTrack>>}, compression \in CompressFactors :
          x_args = [comp |-> Composition(<<Track(<<"Custom", 0>>, "SineWave",
                                                 Numbered(events), rests)>> \o others,
                                         Common),
                    compression |-> compression]
    /\ x_ret = <<>>
    /\ IdleTime /\ IdleSched /\ IdleCompose /\ IdleRewrite /\ IdleScan /\ IdleStep /\ IdlePipe

\* composition.compress(compression)
Compress ==
    /\ x_fn = "compress" /\ x_ret = <<>>
    /\ x_ret' = <<[op |-> "compress",
                   panics |-> \E i \in DOMAIN x_args.comp.tracks :
                                 Track_sub_overflows(x_args.comp.tracks[i], Common),
                   comp |-> Composition_compress(x_args.comp, x_args.compression)]>>
    /\ UNCHANGED <<x_fn, x_args, PureOthers>>

\* track.reverse(time_signature) on every track, once and once more.
Reverse ==
    /\ x_fn = "compress" /\ Len(x_ret) < 2
    /\ \A k \in DOMAIN x_ret : x_ret[k].op = "reverse"
    /\ LET before == IF x_ret = <<>> THEN x_args.comp ELSE x_ret[1].comp
       IN  x_ret' = Append(x_ret,
               [op |-> "reverse",
                panics |-> \E i \in DOMAIN before.tracks :
                              Track_sub_overflows(before.tracks[i], Common),
                comp |-> [before EXCEPT !.tracks =
                             [i \in DOMAIN before.tracks |->
                                 Track_reverse(before.tracks[i], Common)]]])
    /\ UNCHANGED <<x_fn, x_args, PureOthers>>

NextCompress == Compress \/ Reverse

SpecCompress == InitCompress /\ [][NextCompress]_vars

\* A number of beats times a ratio.
Scaled(beat, factor) == Beat_new(beat[1] * factor[1], beat[2] * factor[2])

\* The offset in beats of a time from a start that is not after it.
OffsetBeats(time, start) == Beat_sub(total_beats(time, Common), total_beats(start, Common))

\* Event e of a track from start to end, mirrored inside the track and scaled by
\* factor from the start: at offset (end - start - o - d) x factor with duration
\* d x factor, where o is the offset of e and d its duration.
MirroredAt(after, e, start, end, factor) ==
    /\ OffsetBeats(after.start, start)
         = Scaled(Beat_sub(Beat_sub(OffsetBeats(end, start), OffsetBeats(e.start, start)),
                           e.duration), factor)
    /\ after.duration = Scaled(e.duration, factor)
    /\ after.pitch = e.pitch /\ after.volume = e.volume

\* Event e of a track that starts at start, scaled by factor from the start.
ScaledAt(after, e, start, factor) ==
    /\ OffsetBeats(after.start, start) = Scaled(OffsetBeats(e.start, start), factor)
    /\ after.duration = Scaled(e.duration, factor)
    /\ after.pitch = e.pitch /\ after.volume = e.volume

\* A list of events and what an operation made of it: with a positive factor
\* event i is scaled, with a negative one it is mirrored, scaled and found at
\* the mirrored place of the list.
ListCompressed(before, after, start, end, compression) ==
    /\ Len(after) = Len(before)
    /\ \A i \in DOMAIN before :
          IF compression[1] > 0
          THEN ScaledAt(after[i], before[i], start, compression)
          ELSE MirroredAt(after[Len(before) + 1 - i], before[i], start, end,
                          <<-compression[1], compression[2]>>)

TrackCompressed(before, after, compression) ==
    IF Track_starts(before) = {} THEN after = before
    ELSE LET start == MT_min(Track_starts(before))
             end   == MT_max(Track_ends(before, Common))
         IN  /\ MT_min(Track_starts(after)) = start
             /\ ListCompressed(before.events, after.events, start, end, compression)
             /\ ListCompressed(before.rests, after.rests, start, end, compression)

\* C25: compress with a positive factor f keeps the start of every track and
\* takes every event and rest from offset o and duration d to offset o x f and
\* duration d x f; with a negative factor the event goes first to end - o - d
\* inside the bounds of its track and is then scaled by |f|. reverse alone takes
\* an event to end - o - d, and reversing twice restores the track. No
\* subtraction of the two operations overflows on these tracks.
C25_Compress ==
    x_fn = "compress" =>
        /\ \A k \in DOMAIN x_ret : ~x_ret[k].panics
        /\ (Len(x_ret) >= 1 /\ x_ret[1].op = "compress") =>
               \A i \in DOMAIN x_args.comp.tracks :
                   TrackCompressed(x_args.comp.tracks[i], x_ret[1].comp.tracks[i],
                                   x_args.compression)
        /\ (Len(x_ret) >= 1 /\ x_ret[1].op = "reverse") =>
               \A i \in DOMAIN x_args.comp.tracks :
                   TrackCompressed(x_args.comp.tracks[i], x_ret[1].comp.tracks[i], <<-1, 1>>)
        /\ (Len(x_ret) = 2 /\ x_ret[2].op = "reverse") => x_ret[2].comp = x_args.comp

\* A composition of two tracks compressed by a negative factor other than -1: the
\* first track has two events that change places and a rest.
C25_Witness ==
    /\ x_fn = "compress" /\ Len(x_ret) = 1 /\ x_ret[1].op = "compress"
    /\ x_args.compression[1] < 0 /\ x_args.compression # <<-1, 1>>
    /\ Len(x_args.comp.tracks) = 2
    /\ Len(x_args.comp.tracks[1].events) = 2 /\ Len(x_args.comp.tracks[1].rests) = 1
    /\ MT_lt(x_args.comp.tracks[1].events[1].start, x_args.comp.tracks[1].events[2].start)
    /\ MT_lt(x_ret[1].comp.tracks[1].events[1].start, x_ret[1].comp.tracks[1].events[2].start)
    /\ x_ret[1].comp.tracks[1].events[1].pitch = x_args.comp.tracks[1].events[2].pitch

(***************************************************************************)
(* The window of a looping poll.                                           *)
(***************************************************************************)
\* The events with start in (c, loop_time] followed by those with start in
\* [0, wrapped end] of a poll at elapsed time halves / 2 s.
AroundTheLoop(s, halves, track, c) ==
    get_events_starting_between(track, c, s.loop_time, TRUE)
    \o get_events_starting_between(track, MusicTime_zero, end_music_time(s, halves), FALSE)

\* In every poll whose window crosses loop_time and whose unwrapped window end is
\* not behind the cursor c of a track, the events selected for the track are
\* those around the loop; for every such poll, or only for those with c after the
\* wrapped end.
WrapSelection(any_relation) ==
    \A i \in DOMAIN sched.tracks :
        LET c == sched.tracks[i].cursor IN
        (/\ npolls' = npolls + 1
         /\ looping(sched, elapsed')
         /\ ~MT_lt(end_non_looped(sched, elapsed'), c)
         /\ any_relation \/ MT_lt(end_music_time(sched, elapsed'), c))
            => selected'[i] = AroundTheLoop(sched, elapsed', sched.tracks[i].track, c)

\* C26: on a poll of a looping scheduler whose window crosses loop_time and whose
\* unwrapped window end is not behind a track's cursor c, the events selected for
\* the track are those with start in (c, loop_time] followed by those with start
\* in [0, wrapped end], whatever the relation between c and the wrapped end.
C26_WrapSelection == [][WrapSelection(TRUE)]_vars

\* After a poll of a looped scheduler every cursor is the window end of that poll,
\* wrapped, and is not after loop_time.
CursorsWrapped ==
    (sched.looped /\ npolls >= 1) =>
        \A i \in DOMAIN sched.tracks :
            /\ sched.tracks[i].cursor = end_music_time(sched, elapsed)
            /\ MT_le(sched.tracks[i].cursor, sched.loop_time)

\* A poll that is not the first one of a looped scheduler does not take the branch
\* `end_non_looped < *cursor` for any track.
NeverSelectNothing ==
    (sched.looped /\ npolls >= 1 /\ npolls' = npolls + 1) =>
        \A i \in DOMAIN sched.tracks :
            ~(/\ looping(sched, elapsed')
              /\ MT_lt(end_non_looped(sched, elapsed'), sched.tracks[i].cursor))

\* C27: after any poll of a looped scheduler with loop_time > 0 every cursor
\* equals the wrapped window end of the poll and is at most loop_time, and from
\* the second poll onward the case "the unwrapped window end is behind the
\* cursor, select nothing" is never taken.
C27_CursorInLoop == []CursorsWrapped /\ [][NeverSelectNothing]_vars

\* A looped scheduler after two polls or more, the last with a window across the
\* loop end, its cursors inside the loop.
C27_Witness ==
    /\ sched.looped /\ npolls >= 2
    /\ looping(sched, elapsed)
    /\ \A i \in DOMAIN sched.tracks :
          /\ sched.tracks[i].cursor # MusicTime_zero
          /\ MT_lt(sched.tracks[i].cursor, sched.loop_time)

(***************************************************************************)
(* MusicTime::from_seconds for long elapsed times.  The numerator is a u32 *)
(* made from an f32; numbers of that size are kept here as a count of      *)
(* whole beats and a count of millionths.                                  *)
(***************************************************************************)
Precision   == 1000000    \* let precision = 1000000.0
F32Mantissa == 16777216   \* 2^24: an f32 holds every integer below it
U32MaxBeats == <<4294, 967295>>   \* u32::MAX = 4294 * 10^6 + 967295

\* The f32 nearest to 64 * m, over 64, for m below 2^27; ties go to the even
\* significand.  (From 2^26 on the cast to u32 saturates whatever the rounding.)
f32_round(m) ==
    LET ulp == IF m < F32Mantissa THEN 1
               ELSE IF m < 2 * F32Mantissa THEN 2
               ELSE IF m < 4 * F32Mantissa THEN 4
               ELSE 8
        q == m \div ulp
        r == m % ulp
    IN  IF 2 * r < ulp THEN q * ulp
        ELSE IF 2 * r > ulp THEN (q + 1) * ulp
        ELSE IF q % 2 = 0 THEN q * ulp ELSE (q + 1) * ulp

\* MusicTime::from_seconds(time_signature, bpm, seconds) for a bpm that is a
\* multiple of 60 and whole seconds: bps and beats are exact, beats * precision is
\* rounded to an f32, `as BeatUnit` saturates at u32::MAX, and the ratio over
\* 10^6 is split into measures and a beat.  10^6 is 64 * 15625, so the product
\* is 64 * f32_round(beats * 15625).
MusicTime_from_seconds(time_signature, bpm, seconds) ==
    LET bps   == bpm \div 60
        beats == bps * seconds
        m     == f32_round(beats * (Precision \div 64))
        saturated == m >= 4 * F32Mantissa
        whole == IF saturated THEN U32MaxBeats[1] ELSE m \div (Precision \div 64)
        micro == IF saturated THEN U32MaxBeats[2] ELSE (m % (Precision \div 64)) * 64
    IN  MusicTime(whole \div time_signature[1],
                  Beat_new((whole % time_signature[1]) * Precision + micro, Precision))

\* The elapsed times drawn, in seconds: the first seconds, and times of 18 to 100
\* minutes.
ShortSeconds == 0..12
LongSeconds  == {1072, 1075, 2000, 4288, 4294, 4295, 4296, 5000, 6000}

InitSeconds ==
    /\ x_fn = "from_seconds"
    /\ \E bpm \in {60, 120}, seconds \in ShortSeconds \cup LongSeconds,
          later \in ShortSeconds \cup LongSeconds :
          /\ seconds <= later
          /\ x_args = [bpm |-> bpm, seconds |-> seconds, later |-> later]
    /\ x_ret = <<>>
    /\ IdleTime /\ IdleSched /\ IdleCompose /\ IdleRewrite /\ IdleScan /\ IdleStep /\ IdlePipe

\* MusicTime::from_seconds(TimeSignature::common(), bpm, seconds)
FromSeconds ==
    /\ x_fn = "from_seconds" /\ x_ret = <<>>
    /\ x_ret' = <<MusicTime_from_seconds(Common, x_args.bpm, x_args.seconds)>>
    /\ UNCHANGED <<x_fn, x_args, PureOthers>>

\* The same call at the later time.
FromSecondsLater ==
    /\ x_fn = "from_seconds" /\ Len(x_ret) = 1
    /\ x_ret' = Append(x_ret, MusicTime_from_seconds(Common, x_args.bpm, x_args.later))
    /\ UNCHANGED <<x_fn, x_args, PureOthers>>

NextSeconds == FromSeconds \/ FromSecondsLater

SpecSeconds == InitSeconds /\ [][NextSeconds]_vars

\* The normalized MusicTime of a whole number of beats under 4/4.
WholeBeats(beats) == MusicTime(beats \div Common[1], Beat_whole(beats % Common[1]))

\* The millionths of beat in a MusicTime made by from_seconds, whose beat is a
\* ratio over a divisor of 10^6: <<measure, whole beats, millionths>>.
Millionths(t) ==
    <<t.measure, t.beat[1] \div t.beat[2],
      (t.beat[1] % t.beat[2]) * (Precision \div t.beat[2])>>

\* The order of two such triples.
TripleLe(a, b) ==
    \/ a[1] < b[1]
    \/ a[1] = b[1] /\ a[2] < b[2]
    \/ a[1] = b[1] /\ a[2] = b[2] /\ a[3] <= b[3]

\* The results are normalized and the later one is not before the earlier one.
FromSecondsMonotone ==
    x_fn = "from_seconds" =>
        /\ \A k \in DOMAIN x_ret : Millionths(x_ret[k])[2] < Common[1]
        /\ Len(x_ret) = 2 => TripleLe(Millionths(x_ret[1]), Millionths(x_ret[2]))

\* C28: for every bpm > 0 and seconds >= 0 from_seconds returns the normalized
\* MusicTime of floor(bpm / 60 x seconds x 10^6) / 10^6 beats and is monotone in
\* seconds; the numerator does not saturate or wrap for long elapsed times.  For
\* whole seconds and a bpm that is a multiple of 60 that is bpm / 60 x seconds
\* beats.
C28_FromSeconds ==
    x_fn = "from_seconds" =>
        /\ FromSecondsMonotone
        /\ Len(x_ret) >= 1 => x_ret[1] = WholeBeats((x_args.bpm \div 60) * x_args.seconds)
        /\ Len(x_ret) = 2 => x_ret[2] = WholeBeats((x_args.bpm \div 60) * x_args.later)

(***************************************************************************)
(* The scope of meta-controls.                                             *)
(***************************************************************************)
\* The strings nested directly in a Split or Repeat primitive.
NestedIn(mp) ==
    IF mp.kind = "Split" THEN SeqRange(mp.branches)
    ELSE IF mp.kind = "Repeat" THEN {mp.content} ELSE {}

\* The string has a meta-control among its own primitives.
HasMeta(ms) ==
    \E j \in DOMAIN ms :
        ms[j].kind = "Simple" /\ ms[j].sym.type \in {"ChangeInstrument", "ChangeVolume"}

\* C29: an instrument or volume change inside a Split branch or Repeat content
\* leaves the outer composer's current instrument and volume as they were: a note
\* that follows the Split or Repeat is an event of the track of the instrument
\* that was current before it, with the volume that was current before it, and
\* of no other track.
C29_MetaScoped ==
    (c_called /\ c_result.ok) =>
        \A k \in DOMAIN c_input :
            (/\ \E ms \in NestedIn(c_input[k]) : HasMeta(ms)
             /\ k + 1 \in DOMAIN c_input
             /\ c_input[k + 1].kind = "Simple" /\ c_input[k + 1].sym.type = "Note") =>
                LET before == OuterAt(k)
                    after  == OuterAt(k + 1)
                    here(i) == {e \in SeqRange(c_result.comp.tracks[i].events) :
                                   /\ e.start = after.current_mt
                                   /\ e.pitch = c_input[k + 1].sym.pitch}
                IN  /\ before.current_instrument \in DOMAIN c_result.comp.tracks
                    /\ \E e \in here(before.current_instrument) :
                           e.volume = before.current_volume
                    /\ \A i \in DOMAIN c_result.comp.tracks :
                           i # before.current_instrument => here(i) = {}

\* A Split with a branch that changes the instrument, composed with success and
\* followed by a note; the notes of the branch are in the Piano track.
C29_Witness ==
    /\ c_called /\ c_result.ok
    /\ "Piano" \in DOMAIN c_result.comp.tracks
    /\ \E k \in DOMAIN c_input :
          /\ c_input[k].kind = "Split"
          /\ OuterAt(k).current_instrument # "Piano"
          /\ \E ms \in NestedIn(c_input[k]) : ToPiano \in SeqRange(ms)
          /\ k + 1 \in DOMAIN c_input
          /\ c_input[k + 1] = NoteC1

(***************************************************************************)
(* The shape of a composition.                                             *)
(***************************************************************************)
\* C30: in the Composition of every successful compose, whatever the nesting of
\* Simple, Split and Repeat primitives, the events of each track are in order of
\* non-decreasing start, the tracks are one per instrument, and the start of every
\* event is normalized: its beat is at least zero and less than the beats of a
\* measure.
C30_WellFormed ==
    (c_called /\ c_result.ok) =>
        \A i \in DOMAIN c_result.comp.tracks :
            LET track == c_result.comp.tracks[i] IN
            /\ track.instrument = i
            /\ \A a, b \in DOMAIN track.events :
                   a < b => MT_le(track.events[a].start, track.events[b].start)
            /\ \A a \in DOMAIN track.events :
                   /\ Beat_le(Beat_zero, track.events[a].start.beat)
                   /\ Beat_lt(track.events[a].start.beat, Beat_whole(Common[1]))

\* A Split with a Repeat in a branch composed with success into two tracks, one
\* of them with three events or more that reach into the second measure.
C30_Witness ==
    /\ c_called /\ c_result.ok
    /\ Cardinality(DOMAIN c_result.comp.tracks) = 2
    /\ \E k \in DOMAIN c_input :
          /\ c_input[k].kind = "Split"
          /\ \E ms \in NestedIn(c_input[k]) : \E j \in DOMAIN ms : ms[j].kind = "Repeat"
    /\ \E i \in DOMAIN c_result.comp.tracks :
          /\ Len(c_result.comp.tracks[i].events) >= 3
          /\ \E a \in DOMAIN c_result.comp.tracks[i].events :
                 c_result.comp.tracks[i].events[a].start.measure >= 1

====
